---- MODULE Spec2Model ----
(***************************************************************************)
(* Verification model of bun-scan: the multi-source aggregator             *)
(* (packages/scanner/src/sources/multi.ts), the retry executor             *)
(* (packages/core/src/retry.ts) and the outbound request units of the two  *)
(* source clients (packages/source-osv/src/client.ts,                      *)
(* packages/source-npm/src/client.ts).                                     *)
(***************************************************************************)
EXTENDS Integers, Sequences, FiniteSets, TLC

VARIABLES
    \* ---- aggregator: createMultiSourceScanner(sources).scan ----
    scanState,      \* "idle" | "awaiting" | "resolved" | "rejected"
    results,        \* Promise.allSettled slots, one per source
    allAdvisories,  \* the list collected from the fulfilled sources
    output,         \* indexes into allAdvisories: the objects scan returns
    scanArg,        \* the package list scan is called with
    scanCalls,      \* per source: the package lists its scan has been called with
    requested,      \* per source: its client has sent a request to its service
    settleOrder,    \* the sources in the order in which their scans settled
    \* ---- one call of deduplicateAdvisories(advisories) ----
    dedupArg,       \* the argument, advisories
    dedupResult,    \* the returned objects, as indexes into dedupArg
    dedupDone,      \* the call has returned
    \* ---- one call of withRetry(operation, operationName, config) ----
    config,         \* the RetryConfig of the call
    rpc,            \* "idle" | "operation" | "sleep" | "resolved" | "rejected"
    attempt,        \* the loop counter
    lastError,      \* the message of lastError
    calls,          \* how many times operation has been invoked
    sleeps,         \* the delays handed to sleep, in order
    outcomes,       \* how each finished invocation of operation ended
    retValue,       \* the value withRetry resolved with
    \* ---- one outbound request unit of a source client ----
    unitKind,       \* which client function issues the request
    unitState,      \* "none" | "idle" | "running" | "returned" | "threw"
    answers,        \* what the remote service answered to each request sent
    \* ---- one call of shouldIgnoreVulnerability ----
    ignoreCall,     \* the arguments, the compiled config and the time of the call
    ignoreVerdict,  \* <<>> until the call returns, then <<the returned object>>
    \* ---- one call of mapSeverityToLevel of the OSV source ----
    severityArg,    \* the vulnerability record
    severityLevel,  \* <<>> until the call returns, then <<the level>>
    \* ---- one run of a source processor, or of both and the aggregator ----
    procInput,      \* the records, the packages, the ignore config and the time
    procOutput,     \* <<>> until the run ends, then <<the advisories returned>>, or
                    \* <<the advisories pushed so far, "threw">> when it threw
    ignoredCount,   \* the processor's counter of ignored matches
    \* ---- one call of a client's queryVulnerabilities, up to its requests ----
    queryInput,     \* the client, its batch settings and the package list
    queryOutput,    \* <<>> until done, then <<the request bodies, in order>>
    \* ---- one call of scanner.scan, or of createMultiSourceScanner ----
    topCall,        \* what is called, with the config files and what its steps meet
    topResult,      \* <<>> until the call has ended, then <<how it ended>>
    \* ---- one call of queryWithBatch(queries) of the OSV client ----
    batchCall,      \* the queries and the sizes of a batch and of a detail chunk
    batchState,     \* "none" | "idle" | "batches" | "details" | "returned" | "rejected"
    batchRequests,  \* per batch: where its executeBatchQuery stands, what it returned
    vulnerabilityIds, \* the ids pushed by the batches that succeeded
    chunkAt,        \* the position i of the loop of fetchVulnerabilityDetails
    detailRequests, \* per unique id: where its fetchSingleVulnerability stands
    detailVulnerabilities, \* vulnerabilities: the records pushed by the chunks that have settled
    \* ---- one call of querySinglePackage(query) under queryIndividually ----
    pageCall,       \* the query
    pageState,      \* "none" | "idle" | "running" | "returned" | "rejected"
    pageRequest,    \* where the withRetry of the page being fetched stands
    currentQuery,   \* the body posted for the page being fetched
    allVulns,       \* the records pushed by the pages read so far
    received,       \* the bodies the service has received, each with the number of
                    \* pages it had served before
    pagesServed,    \* the pages the service has served, in order
    individualResult, \* <<>> until queryIndividually returns, then <<what it returns>>
    \* ---- one call of scan(packages) of the npm source, request by request ----
    npmCall,        \* the packages and the size of a chunk
    npmState,       \* "none" | "idle" | "running" | "resolved" | "rejected"
    npmRequests,    \* per bulk request: where its executeBulkQuery stands, and in
                    \* ids what it returned
    npmAdvisories,  \* the advisories pushed by the chunks that succeeded
    npmResult       \* <<>> until scan resolves, then <<the advisories it resolves with>>

callVars == <<scanArg, scanCalls, requested, settleOrder>>

aggVars == <<scanState, results, allAdvisories, output, callVars>>

dedupVars == <<dedupArg, dedupResult, dedupDone>>

retryVars == <<config, rpc, attempt, lastError, calls, sleeps, outcomes, retValue>>

unitVars == <<unitKind, unitState, answers>>

ignVars == <<ignoreCall, ignoreVerdict>>

sevVars == <<severityArg, severityLevel>>

procVars == <<procInput, procOutput, ignoredCount>>

qryVars == <<queryInput, queryOutput>>

topVars == <<topCall, topResult>>

batchVars ==
    <<batchCall, batchState, batchRequests, vulnerabilityIds, chunkAt, detailRequests,
      detailVulnerabilities>>

pageVars ==
    <<pageCall, pageState, pageRequest, currentQuery, allVulns, received, pagesServed,
      individualResult>>

npmVars == <<npmCall, npmState, npmRequests, npmAdvisories, npmResult>>

clientVars == <<batchVars, pageVars, npmVars>>

pureVars == <<ignVars, sevVars, procVars, qryVars, topVars>>

vars == <<aggVars, dedupVars, retryVars, unitVars, pureVars, clientVars>>

(***************************************************************************)
(* Bounds of the model                                                     *)
(***************************************************************************)
\* Length of the list handed to one call of deduplicateAdvisories.
MaxAdvisories == 3

\* Total number of advisories the sources of one scan return.
MaxReturned == 2

\* Largest maxAttempts of a RetryConfig a caller of withRetry passes.
MaxAttemptLimit == 4

\* Identifiers (ids and aliases), package names and alias lists of the model.
Ids == {"GHSA-x", "CVE-1", "CVE-2"}
AliasLists == {<<>>} \cup {<<i>> : i \in Ids}

(***************************************************************************)
(* Generic helpers                                                         *)
(***************************************************************************)
Range(s) == {s[i] : i \in 1..Len(s)}

\* new Set([...]) of JavaScript: first occurrences, in insertion order.
RECURSIVE Distinct(_)
Distinct(s) ==
    IF s = <<>> THEN <<>>
    ELSE LET front == Distinct(SubSeq(s, 1, Len(s) - 1))
             last  == s[Len(s)]
         IN IF last \in Range(front) THEN front ELSE Append(front, last)

(***************************************************************************)
(* Aggregator: data                                                        *)
(***************************************************************************)
Levels == {"fatal", "warn"}

\* Bun.Security.Advisory, restricted to the fields the aggregator reads. The
\* advisories of the model: every id, alias list and level for package "pkg", and
\* the advisories of id CVE-1 for a second package.
Advisory ==
    {a \in [id : Ids, aliases : AliasLists, level : Levels, package : {"pkg"}] :
        a.id \notin Range(a.aliases)}
    \cup [id : {"CVE-1"}, aliases : {<<>>, <<"GHSA-x">>}, level : Levels, package : {"other"}]

\* createSources(type, config): the sources of a source type, by name, in the
\* order of the returned array; an unknown type throws.
createSources(type) ==
    IF type = "osv" THEN [threw |-> FALSE, sources |-> <<"osv">>]
    ELSE IF type = "npm" THEN [threw |-> FALSE, sources |-> <<"npm">>]
    ELSE IF type = "both" THEN [threw |-> FALSE, sources |-> <<"osv", "npm">>]
    ELSE [threw |-> TRUE, sources |-> <<>>]

\* The sources of mode "both", in the order the factory creates them.
SourceNames == createSources("both").sources
SourceIdx == 1..Len(SourceNames)

RECURSIVE SeqsUpTo(_, _)
SeqsUpTo(S, n) ==
    IF n = 0 THEN {<<>>}
    ELSE LET shorter == SeqsUpTo(S, n - 1)
         IN shorter \cup {Append(s, x) : s \in {t \in shorter : Len(t) = n - 1}, x \in S}

(***************************************************************************)
(* Aggregator: deduplicateAdvisories                                       *)
(***************************************************************************)
\* isHigherSeverity with the comparison turned round.
isHigherSeverity_Inverted(a, b) == (IF a = "fatal" THEN 2 ELSE 1) < (IF b = "fatal" THEN 2 ELSE 1)

\* isHigherSeverity(a, b): priority fatal 2, warn 1, anything else 0.
priority(l) == IF l = "fatal" THEN 2 ELSE IF l = "warn" THEN 1 ELSE 0

\* isHigherSeverity with >= in place of >: on a tie the later advisory wins.
isHigherSeverity_TiesReplace(a, b) == priority(a) >= priority(b)

isHigherSeverity(a, b) == priority(a) > priority(b)

\* new Set([advisory.id, ...(advisory.aliases ?? [])])
idsOf(advisory) == Distinct(<<advisory.id>> \o advisory.aliases)

\* The key without the package: the id alone.
keyOf_NoPackage(packageKey, id) == id

\* `${packageKey}:${id}`: the two strings joined by a colon.
keyOf(packageKey, id) == packageKey \o ":" \o id

\* The Map<string, Advisory>: a sequence of [key, val] in insertion order; val is
\* the index in the input list of the advisory object the key points at.
mapHas(map, key) == \E i \in 1..Len(map) : map[i].key = key

mapGet(map, key) == map[CHOOSE i \in 1..Len(map) : map[i].key = key].val

mapSet(map, key, val) ==
    IF mapHas(map, key)
    THEN [i \in 1..Len(map) |-> IF map[i].key = key THEN [key |-> key, val |-> val] ELSE map[i]]
    ELSE Append(map, [key |-> key, val |-> val])

RECURSIVE mapSetAll(_, _, _, _)
mapSetAll(map, packageKey, ids, val) ==
    IF ids = <<>> THEN map
    ELSE mapSetAll(mapSet(map, keyOf(packageKey, ids[1]), val), packageKey, Tail(ids), val)

\* The inner loop that looks for an existing entry: the first id of currentIds
\* whose key the map has, 0 when there is none (existingKey = null).
findExisting(map, packageKey, currentIds) ==
    LET hits == {i \in 1..Len(currentIds) : mapHas(map, keyOf(packageKey, currentIds[i]))}
    IN IF hits = {} THEN 0 ELSE CHOOSE i \in hits : \A j \in hits : i <= j

\* One iteration of `for (const advisory of advisories)`.
dedupStep(map, advisories, n) ==
    LET advisory   == advisories[n]
        currentIds == idsOf(advisory)
        packageKey == advisory.package
        found      == findExisting(map, packageKey, currentIds)
    IN IF found = 0
       THEN mapSetAll(map, packageKey, currentIds, n)
       ELSE LET existing    == mapGet(map, keyOf(packageKey, currentIds[found]))
                winner      == IF isHigherSeverity(advisory.level, advisories[existing].level)
                               THEN n ELSE existing
                existingIds == idsOf(advisories[existing])
                mergedIds   == Distinct(currentIds \o existingIds)
            IN mapSetAll(map, packageKey, mergedIds, winner)

RECURSIVE dedupLoop(_, _, _)
dedupLoop(map, advisories, n) ==
    IF n > Len(advisories) THEN map
    ELSE dedupLoop(dedupStep(map, advisories, n), advisories, n + 1)

\* Array.from(new Set(map.values())): the distinct objects, as indexes.
deduplicateAdvisories(advisories) ==
    LET map == dedupLoop(<<>>, advisories, 1)
    IN Distinct([i \in 1..Len(map) |-> map[i].val])

(***************************************************************************)
(* Aggregator: scan                                                        *)
(***************************************************************************)
\* The values of the fulfilled sources in the order in which the sources settled.
RECURSIVE collectAdvisories_CompletionOrder(_, _)
collectAdvisories_CompletionOrder(res, i) ==
    IF i > Len(settleOrder) THEN <<>>
    ELSE (IF res[settleOrder[i]].status = "fulfilled" THEN res[settleOrder[i]].value ELSE <<>>)
         \o collectAdvisories_CompletionOrder(res, i + 1)

\* The loop over results.entries(): the values of the fulfilled sources, in the
\* order of the sources array; a rejected source is logged and skipped.
RECURSIVE collectAdvisories(_, _)
collectAdvisories(res, i) ==
    IF i > Len(res) THEN <<>>
    ELSE (IF res[i].status = "fulfilled" THEN res[i].value ELSE <<>>)
         \o collectAdvisories(res, i + 1)

\* scan with Promise.all in place of Promise.allSettled.
settledOutcome_FailFast(res) ==
    IF \E i \in 1..Len(res) : res[i].status = "rejected" THEN "rejected" ELSE "resolved"

\* What awaiting Promise.allSettled does to scan: it never rejects.
settledOutcome(res) == "resolved"

Returned(res) == Len(collectAdvisories(res, 1))

\* No call of deduplicateAdvisories on its own is under way.
DedupIdle ==
    /\ dedupArg = <<>>
    /\ dedupResult = <<>>
    /\ dedupDone = FALSE

\* No call of withRetry is under way.
RetryIdle ==
    /\ config = [maxAttempts |-> 1, delayMs |-> 0, shouldRetry |-> "absent"]
    /\ rpc = "none"
    /\ attempt = 0
    /\ lastError = <<>>
    /\ calls = 0
    /\ sleeps = <<>>
    /\ outcomes = <<>>
    /\ retValue = "none"

\* No client request unit is under way.
UnitIdle ==
    /\ unitKind = "none"
    /\ unitState = "none"
    /\ answers = <<>>

\* No call of shouldIgnoreVulnerability on its own is under way.
IgnoreIdle ==
    /\ ignoreCall = <<>>
    /\ ignoreVerdict = <<>>

\* No call of mapSeverityToLevel on its own is under way.
SeverityIdle ==
    /\ severityArg = <<>>
    /\ severityLevel = <<>>

\* No processor run is under way.
ProcIdle ==
    /\ procInput = <<>>
    /\ procOutput = <<>>
    /\ ignoredCount = 0

\* No client is building requests.
QueryIdle ==
    /\ queryInput = <<>>
    /\ queryOutput = <<>>

\* No call of queryWithBatch is under way.
BatchIdle ==
    /\ batchCall = <<>>
    /\ batchState = "none"
    /\ batchRequests = <<>>
    /\ vulnerabilityIds = <<>>
    /\ chunkAt = 0
    /\ detailRequests = <<>>
    /\ detailVulnerabilities = <<>>

\* No call of querySinglePackage is under way.
PagesIdle ==
    /\ pageCall = <<>>
    /\ pageState = "none"
    /\ pageRequest = <<>>
    /\ currentQuery = <<>>
    /\ allVulns = <<>>
    /\ received = {}
    /\ pagesServed = <<>>
    /\ individualResult = <<>>

\* No scan of the npm source is followed request by request.
NpmIdle ==
    /\ npmCall = <<>>
    /\ npmState = "none"
    /\ npmRequests = <<>>
    /\ npmAdvisories = <<>>
    /\ npmResult = <<>>

\* No client call is followed request by request.
ClientIdle == BatchIdle /\ PagesIdle /\ NpmIdle

\* Neither scanner.scan nor createMultiSourceScanner on its own is called.
TopIdle ==
    /\ topCall = <<>>
    /\ topResult = <<>>

\* The package lists scan is called with: none, and one package.
ScanArgs == {<<>>, <<[name |-> "pkg", version |-> "1.0.0"]>>}

\* The aggregator of the two sources before scan(packages) is called.
AggBefore(packages) ==
    /\ scanState = "idle"
    /\ results = [i \in SourceIdx |-> [status |-> "none", value |-> <<>>]]
    /\ allAdvisories = <<>>
    /\ output = <<>>
    /\ scanArg = packages
    /\ scanCalls = [i \in SourceIdx |-> <<>>]
    /\ requested = [i \in SourceIdx |-> FALSE]
    /\ settleOrder = <<>>

InitAgg ==
    /\ ClientIdle
    /\ TopIdle
    /\ IgnoreIdle
    /\ SeverityIdle
    /\ ProcIdle
    /\ QueryIdle
    /\ DedupIdle
    /\ RetryIdle
    /\ UnitIdle
    /\ \E packages \in ScanArgs : AggBefore(packages)

\* scan(packages) up to the await: sources.map calls every source's scan with
\* packages.
ScanStart ==
    /\ scanState = "idle"
    /\ scanState' = "awaiting"
    /\ results' = [i \in SourceIdx |-> [status |-> "pending", value |-> <<>>]]
    /\ scanCalls' = [i \in SourceIdx |-> Append(scanCalls[i], scanArg)]
    /\ UNCHANGED <<allAdvisories, output, scanArg, requested, settleOrder,
                   dedupVars, clientVars, pureVars, retryVars, unitVars>>

\* The scan of a source with the early return taken out.
returnsAtOnce_Never(packages) == FALSE

\* if (packages.length === 0) return []: the scan of the npm source, and
\* queryVulnerabilities of the OSV client followed by the processor, return the
\* empty list for no packages before anything is sent.
returnsAtOnce(packages) == Len(packages) = 0

\* A source's client sends its first request.
SourceRequests(i) ==
    /\ scanState = "awaiting"
    /\ results[i].status = "pending"
    /\ ~returnsAtOnce(scanCalls[i][1])
    /\ ~requested[i]
    /\ requested' = [requested EXCEPT ![i] = TRUE]
    /\ UNCHANGED <<scanState, results, allAdvisories, output, scanArg, scanCalls,
                   settleOrder, dedupVars, clientVars, pureVars, retryVars, unitVars>>

\* A source's scan resolves with a list of advisories: the empty list at once for
\* no packages, what its processor makes of the answers otherwise.
SourceFulfils(i) ==
    /\ scanState = "awaiting"
    /\ results[i].status = "pending"
    /\ \E value \in SeqsUpTo(Advisory, MaxReturned - Returned(results)) :
          /\ IF returnsAtOnce(scanCalls[i][1]) THEN value = <<>> ELSE requested[i]
          /\ results' = [results EXCEPT ![i] = [status |-> "fulfilled", value |-> value]]
    /\ settleOrder' = Append(settleOrder, i)
    /\ UNCHANGED <<scanState, allAdvisories, output, scanArg, scanCalls, requested,
                   dedupVars, clientVars, pureVars, retryVars, unitVars>>

\* A source's scan rejects: before its first request (building it failed) or
\* after it (the retries are used up).
SourceRejects(i) ==
    /\ scanState = "awaiting"
    /\ results[i].status = "pending"
    /\ ~returnsAtOnce(scanCalls[i][1])
    /\ results' = [results EXCEPT ![i] = [status |-> "rejected", value |-> <<>>]]
    /\ settleOrder' = Append(settleOrder, i)
    /\ UNCHANGED <<scanState, allAdvisories, output, scanArg, scanCalls, requested,
                   dedupVars, clientVars, pureVars, retryVars, unitVars>>

\* await Promise.allSettled(...) goes on once every promise has settled.
allSettled(res) ==
    \A i \in 1..Len(res) : res[i].status \in {"fulfilled", "rejected"}

\* The rest of scan once every source has settled: collect, de-duplicate, return.
ScanFinish ==
    /\ scanState = "awaiting"
    /\ allSettled(results)
    /\ scanState' = settledOutcome(results)
    /\ allAdvisories' = collectAdvisories(results, 1)
    /\ output' = IF settledOutcome(results) = "resolved"
                 THEN deduplicateAdvisories(collectAdvisories(results, 1))
                 ELSE <<>>
    /\ UNCHANGED <<results, callVars, dedupVars, clientVars, pureVars, retryVars, unitVars>>

NextAgg ==
    \/ ScanStart
    \/ \E i \in SourceIdx : SourceRequests(i)
    \/ \E i \in SourceIdx : SourceFulfils(i)
    \/ \E i \in SourceIdx : SourceRejects(i)
    \/ ScanFinish

Spec == InitAgg /\ [][NextAgg]_vars

(***************************************************************************)
(* deduplicateAdvisories on every list of advisories                       *)
(***************************************************************************)
AggIdle == AggBefore(<<>>)

InitDedup ==
    /\ ClientIdle
    /\ TopIdle
    /\ IgnoreIdle
    /\ SeverityIdle
    /\ ProcIdle
    /\ QueryIdle
    /\ AggIdle
    /\ RetryIdle
    /\ UnitIdle
    /\ dedupArg \in SeqsUpTo(Advisory, MaxAdvisories)
    /\ dedupResult = <<>>
    /\ dedupDone = FALSE

Deduplicate ==
    /\ ~dedupDone
    /\ dedupResult' = deduplicateAdvisories(dedupArg)
    /\ dedupDone' = TRUE
    /\ UNCHANGED <<dedupArg, aggVars, clientVars, retryVars, unitVars, pureVars>>

NextDedup == Deduplicate

SpecDedup == InitDedup /\ [][NextDedup]_vars

(***************************************************************************)
(* Retry executor: data                                                    *)
(***************************************************************************)
RECURSIVE Pow(_, _)
Pow(b, e) == IF e = 0 THEN 1 ELSE b * Pow(b, e - 1)

\* An error message is a sequence of pieces of text; a status code is spelled as
\* its three digits, so that message.includes("400") is a search for a substring.
DigitChar(d) == <<"0", "1", "2", "3", "4", "5", "6", "7", "8", "9">>[d + 1]

StatusDigits(status) ==
    <<DigitChar(status \div 100), DigitChar((status \div 10) % 10), DigitChar(status % 10)>>

\* String.prototype.includes on such messages.
includes(message, pattern) ==
    \E k \in 0..(Len(message) - Len(pattern)) :
        \A n \in 1..Len(pattern) : message[k + n] = pattern[n]

\* new Error("Unknown error")
UnknownError == <<"Unknown error">>

\* OSV_API.MAX_RETRY_ATTEMPTS and OSV_API.RETRY_DELAY_MS
MAX_RETRY_ATTEMPTS == 2
RETRY_DELAY_MS == 1000

\* shouldRetry of DEFAULT_RETRY_CONFIG
defaultShouldRetry(error) ==
    IF \/ includes(error, StatusDigits(400))
       \/ includes(error, StatusDigits(401))
       \/ includes(error, StatusDigits(403))
    THEN FALSE
    ELSE IF includes(error, StatusDigits(404)) THEN FALSE
    ELSE TRUE

\* The predicate of the test "stops retrying when shouldRetry returns false".
not400ShouldRetry(error) == ~includes(error, StatusDigits(400))

DEFAULT_RETRY_CONFIG ==
    [maxAttempts |-> MAX_RETRY_ATTEMPTS + 1, delayMs |-> RETRY_DELAY_MS, shouldRetry |-> "default"]

\* config.shouldRetry?.(lastError) ?? true
shouldRetryOf(cfg, error) ==
    IF cfg.shouldRetry = "absent" THEN TRUE
    ELSE IF cfg.shouldRetry = "default" THEN defaultShouldRetry(error)
    ELSE not400ShouldRetry(error)

\* The loop written as do ... while: the first attempt is made in any case.
loopContinues_AtLeastOnce(att, cfg) == att = 1 \/ att <= cfg.maxAttempts

\* The loop condition with < in place of <=.
loopContinues_StopsEarly(att, cfg) == att < cfg.maxAttempts

\* The loop condition, attempt <= config.maxAttempts.
loopContinues(att, cfg) == att <= cfg.maxAttempts

\* attempt === config.maxAttempts
isLastAttempt(att, cfg) == att = cfg.maxAttempts

\* The break that looks at the attempt count only.
stopsRetrying_IgnoresPredicate(att, cfg, error) == att = cfg.maxAttempts

\* if (isLastAttempt || !shouldRetry): log the failure and break.
stopsRetrying(att, cfg, error) == isLastAttempt(att, cfg) \/ ~shouldRetryOf(cfg, error)

\* The delay with exponent attempt in place of attempt - 1.
delayOf_ExponentAttempt(att, cfg) == [num |-> cfg.delayMs * Pow(3, att), den |-> Pow(2, att)]

\* config.delayMs * 1.5 ** (attempt - 1), as the exact fraction num / den.
delayOf(att, cfg) == [num |-> cfg.delayMs * Pow(3, att - 1), den |-> Pow(2, att - 1)]

\* The try block without its return: the loop goes on while attempts remain.
afterSuccess_KeepsLooping(att, cfg) == IF att < cfg.maxAttempts THEN "sleep" ELSE "resolved"

\* Where the try block goes after operation() has resolved: return result.
afterSuccess(att, cfg) == "resolved"

(***************************************************************************)
(* Retry executor: withRetry                                               *)
(***************************************************************************)
\* The head of the for loop with the counter at att: invoke operation, or leave
\* the loop and throw lastError.
EnterAttempt(att) ==
    /\ attempt' = att
    /\ IF loopContinues(att, config)
       THEN /\ rpc' = "operation"
            /\ calls' = calls + 1
       ELSE /\ rpc' = "rejected"
            /\ calls' = calls

\* withRetry is called: lastError is initialised and the loop is entered.
withRetryCall ==
    /\ rpc = "idle"
    /\ lastError' = UnknownError
    /\ EnterAttempt(1)
    /\ UNCHANGED <<config, sleeps, outcomes, retValue>>

\* await operation() resolves with value.
OnResolved(value) ==
    /\ rpc = "operation"
    /\ outcomes' = Append(outcomes, [ok |-> TRUE, value |-> value, error |-> <<>>])
    /\ IF afterSuccess(attempt, config) = "resolved"
       THEN /\ rpc' = "resolved"
            /\ retValue' = value
            /\ UNCHANGED sleeps
       ELSE /\ rpc' = "sleep"
            /\ sleeps' = Append(sleeps, delayOf(attempt, config))
            /\ UNCHANGED retValue
    /\ UNCHANGED <<config, attempt, lastError, calls>>

\* await operation() rejects with error: the catch block.
OnRejected(error) ==
    /\ rpc = "operation"
    /\ outcomes' = Append(outcomes, [ok |-> FALSE, value |-> "none", error |-> error])
    /\ lastError' = error
    /\ IF stopsRetrying(attempt, config, error)
       THEN /\ rpc' = "rejected"
            /\ UNCHANGED sleeps
       ELSE /\ rpc' = "sleep"
            /\ sleeps' = Append(sleeps, delayOf(attempt, config))
    /\ UNCHANGED <<config, attempt, calls, retValue>>

\* await sleep(delay) resolves: attempt++ and back to the head of the loop.
sleepResolved ==
    /\ rpc = "sleep"
    /\ EnterAttempt(attempt + 1)
    /\ UNCHANGED <<config, lastError, sleeps, outcomes, retValue>>

(***************************************************************************)
(* withRetry around an arbitrary operation                                 *)
(***************************************************************************)
\* What the operations of the model resolve with and throw.
Values == {"success", "final result"}

Errors ==
    { <<"HTTP ">> \o StatusDigits(400) \o <<": Bad Request">>,
      <<"HTTP ">> \o StatusDigits(404) \o <<": Not Found">>,
      <<"HTTP ">> \o StatusDigits(500) \o <<": Internal Server Error">>,
      <<"Always fails">> }

ShouldRetryKinds == {"absent", "default", "not400"}

RetryConfigs ==
    [maxAttempts : -1..MaxAttemptLimit, delayMs : {0, 10, 100}, shouldRetry : ShouldRetryKinds]
    \cup {DEFAULT_RETRY_CONFIG}

InitRetry ==
    /\ ClientIdle
    /\ TopIdle
    /\ IgnoreIdle
    /\ SeverityIdle
    /\ ProcIdle
    /\ QueryIdle
    /\ AggIdle
    /\ DedupIdle
    /\ UnitIdle
    /\ config \in RetryConfigs
    /\ rpc = "idle"
    /\ attempt = 0
    /\ lastError = <<>>
    /\ calls = 0
    /\ sleeps = <<>>
    /\ outcomes = <<>>
    /\ retValue = "none"

RetryCalled == withRetryCall /\ UNCHANGED <<aggVars, dedupVars, clientVars, pureVars, unitVars>>

OperationResolves ==
    \E value \in Values : OnResolved(value) /\ UNCHANGED <<aggVars, dedupVars, clientVars, pureVars, unitVars>>

OperationRejects ==
    \E error \in Errors : OnRejected(error) /\ UNCHANGED <<aggVars, dedupVars, clientVars, pureVars, unitVars>>

SleepResolves == sleepResolved /\ UNCHANGED <<aggVars, dedupVars, clientVars, pureVars, unitVars>>

NextRetry ==
    \/ RetryCalled
    \/ OperationResolves
    \/ OperationRejects
    \/ SleepResolves

SpecRetry == InitRetry /\ [][NextRetry]_vars

(***************************************************************************)
(* Source clients: one outbound request unit                               *)
(***************************************************************************)
\* The client functions that send a request through withRetry.
UnitKinds ==
    {"executeBatchQuery", "fetchSingleVulnerability", "querySinglePackage", "executeBulkQuery"}

\* NPM_AUDIT_API.MAX_RETRY_ATTEMPTS and NPM_AUDIT_API.RETRY_DELAY_MS
NPM_MAX_RETRY_ATTEMPTS == 2
NPM_RETRY_DELAY_MS == 1000

\* The third argument of withRetry: executeBulkQuery passes its own config, which
\* has no shouldRetry; the OSV client passes none and gets DEFAULT_RETRY_CONFIG.
retryConfigOf(kind) ==
    IF kind = "executeBulkQuery"
    THEN [maxAttempts |-> NPM_MAX_RETRY_ATTEMPTS + 1, delayMs |-> NPM_RETRY_DELAY_MS,
          shouldRetry |-> "absent"]
    ELSE DEFAULT_RETRY_CONFIG

\* What the remote service does with one request.
Statuses == {200, 400, 401, 403, 404, 429, 500, 503}

Answers ==
    [type : {"http"}, status : Statuses \ {200}, body : {"none"}]
    \cup [type : {"http"}, status : {200}, body : {"valid", "malformed"}]
    \cup [type : {"network", "timeout"}, status : {0}, body : {"none"}]

\* res.statusText
statusText(status) ==
    IF status = 400 THEN "Bad Request"
    ELSE IF status = 401 THEN "Unauthorized"
    ELSE IF status = 403 THEN "Forbidden"
    ELSE IF status = 404 THEN "Not Found"
    ELSE IF status = 429 THEN "Too Many Requests"
    ELSE IF status = 500 THEN "Internal Server Error"
    ELSE "Service Unavailable"

\* The message of the Error thrown when !res.ok.
httpErrorMessage(kind, status) ==
    << IF kind = "executeBatchQuery" THEN "OSV API returned "
       ELSE IF kind = "executeBulkQuery" THEN "npm registry returned "
       ELSE "HTTP " >>
    \o StatusDigits(status) \o <<": ", statusText(status)>>

\* res.ok
isOk(status) == status >= 200 /\ status <= 299

Succeeds(value) == [ok |-> TRUE, value |-> value, error |-> <<>>]
Fails(error) == [ok |-> FALSE, value |-> "none", error |-> error]

\* The operation handed to withRetry, given the answer to its fetch. Only
\* fetchSingleVulnerability reads and validates the body inside the operation;
\* the others return the Response (its body still unread).
operationOf(kind, answer) ==
    IF answer.type = "network" THEN Fails(<<"Unable to connect">>)
    ELSE IF answer.type = "timeout" THEN Fails(<<"The operation timed out.">>)
    ELSE IF ~isOk(answer.status) THEN Fails(httpErrorMessage(kind, answer.status))
    ELSE IF kind = "fetchSingleVulnerability"
         THEN IF answer.body = "malformed"
              THEN Fails(<<"Invalid input">>)
              ELSE Succeeds("record")
    ELSE Succeeds(answer.body)

\* What the unit does once withRetry has settled: fetchSingleVulnerability catches
\* a rejection and returns null; the others let it propagate, and on success read
\* and validate the body, which throws on a malformed one.
unitOutcome(kind, pc, value) ==
    IF kind = "fetchSingleVulnerability"
    THEN IF pc = "rejected" THEN "returnedNull" ELSE "returned"
    ELSE IF pc = "rejected" THEN "threw"
    ELSE IF value = "malformed" THEN "threw"
    ELSE "returned"

InitUnit ==
    /\ ClientIdle
    /\ TopIdle
    /\ IgnoreIdle
    /\ SeverityIdle
    /\ ProcIdle
    /\ QueryIdle
    /\ AggIdle
    /\ DedupIdle
    /\ unitKind \in UnitKinds
    /\ unitState = "idle"
    /\ answers = <<>>
    /\ config = retryConfigOf(unitKind)
    /\ rpc = "idle"
    /\ attempt = 0
    /\ lastError = <<>>
    /\ calls = 0
    /\ sleeps = <<>>
    /\ outcomes = <<>>
    /\ retValue = "none"

\* The client function is called and calls withRetry; the first request goes out.
UnitStart ==
    /\ unitState = "idle"
    /\ unitState' = "running"
    /\ withRetryCall
    /\ UNCHANGED <<unitKind, answers, aggVars, dedupVars, clientVars, pureVars>>

\* The service answers the request in flight (or the connection or the timeout
\* fails it): the operation settles and withRetry goes on.
ServerAnswers ==
    /\ unitState = "running"
    /\ rpc = "operation"
    /\ \E answer \in Answers :
          /\ answers' = Append(answers, answer)
          /\ LET o == operationOf(unitKind, answer)
             IN IF o.ok THEN OnResolved(o.value) ELSE OnRejected(o.error)
    /\ UNCHANGED <<unitKind, unitState, aggVars, dedupVars, clientVars, pureVars>>

\* The backoff sleep ends and the next request goes out.
UnitSleepResolves ==
    /\ unitState = "running"
    /\ sleepResolved
    /\ UNCHANGED <<unitVars, aggVars, dedupVars, clientVars, pureVars>>

\* withRetry has settled: the unit returns to its caller or throws.
UnitSettles ==
    /\ unitState = "running"
    /\ rpc \in {"resolved", "rejected"}
    /\ unitState' = unitOutcome(unitKind, rpc, retValue)
    /\ UNCHANGED <<unitKind, answers, retryVars, aggVars, dedupVars, clientVars, pureVars>>

NextUnit ==
    \/ UnitStart
    \/ ServerAnswers
    \/ UnitSleepResolves
    \/ UnitSettles

SpecUnit == InitUnit /\ [][NextUnit]_vars

(***************************************************************************)
(* Ignore policy: compileIgnoreConfig and shouldIgnoreVulnerability        *)
(***************************************************************************)
\* An optional value (undefined, or a value) is a set of at most one element.
Undefined == {}
Some(x) == {x}
IsDefined(opt) == opt # {}
ValueOf(opt) == CHOOSE x \in opt : TRUE

\* opt ?? []
orEmptyList(opt) == IF IsDefined(opt) THEN ValueOf(opt) ELSE <<>>

\* The truth value of an optional string in a condition: undefined and "" are
\* falsy.
isTruthy(opt) == IsDefined(opt) /\ ValueOf(opt) # ""

\* new Date(s) for the strings of the model: the time value in days since the
\* epoch, or an Invalid Date when s is not a date.
dateOf(s) ==
    IF s = "2025-01-01" THEN [valid |-> TRUE, time |-> 20089]
    ELSE [valid |-> FALSE, time |-> 0]

\* a < b with an Invalid Date counted as before every date.
dateLess_InvalidIsPast(a, b) == ~a.valid \/ (a.valid /\ b.valid /\ a.time < b.time)

\* a < b on two Dates: false as soon as one of them is an Invalid Date.
dateLess(a, b) == a.valid /\ b.valid /\ a.time < b.time

\* compileIgnoreConfig(config): the arrays become Sets, the record of rules
\* becomes a Map.
compileIgnoreConfig(cfg) ==
    LET rules == IF IsDefined(cfg.packages) THEN ValueOf(cfg.packages) ELSE <<>>
    IN [ignoreSet |-> Range(orEmptyList(cfg.ignore)),
        packages  |-> [name \in DOMAIN rules |->
                          [vulnerabilitiesSet |-> Range(orEmptyList(rules[name].vulnerabilities)),
                           until  |-> rules[name].until,
                           reason |-> rules[name].reason]]]

\* idsToCheck without the aliases.
idsToCheck_PrimaryOnly(vulnId, vulnAliases) == <<vulnId>>

\* const idsToCheck = [vulnId, ...(vulnAliases ?? [])]
idsToCheck(vulnId, vulnAliases) == <<vulnId>> \o orEmptyList(vulnAliases)

\* The expiry test with <= in place of <.
isExpired_AtOrBefore(until, now) ==
    isTruthy(until) /\ LET d == dateOf(ValueOf(until))
                       IN d.valid /\ now.valid /\ d.time <= now.time

\* if (rule.until) { if (new Date(rule.until) < new Date()) ... }
isExpired(until, now) == isTruthy(until) /\ dateLess(dateOf(ValueOf(until)), now)

\* The first id of ids that the Set has: its position, 0 when there is none.
firstListed(ids, set) ==
    LET hits == {i \in 1..Len(ids) : ids[i] \in set}
    IN IF hits = {} THEN 0 ELSE CHOOSE i \in hits : \A j \in hits : i <= j

notIgnored == [ignored |-> FALSE, reason |-> Undefined]

\* shouldIgnoreVulnerability(vulnId, vulnAliases, packageName, config), called
\* when new Date() is now.
shouldIgnoreVulnerability(vulnId, vulnAliases, packageName, cfg, now) ==
    LET ids    == idsToCheck(vulnId, vulnAliases)
        global == firstListed(ids, cfg.ignoreSet)
    IN IF global # 0
       THEN [ignored |-> TRUE, reason |-> Some(<<"globally ignored (", ids[global], ")">>)]
       ELSE IF isTruthy(packageName) /\ ValueOf(packageName) \in DOMAIN cfg.packages
       THEN LET rule   == cfg.packages[ValueOf(packageName)]
                listed == firstListed(ids, rule.vulnerabilitiesSet)
            IN IF isExpired(rule.until, now) THEN notIgnored
               ELSE IF listed # 0
               THEN [ignored |-> TRUE,
                     reason  |-> Some(IF isTruthy(rule.reason)
                                      THEN <<"package rule: ", ValueOf(rule.reason)>>
                                      ELSE <<"ignored for ", ValueOf(packageName), " (",
                                             ids[listed], ")">>)]
               ELSE notIgnored
       ELSE notIgnored

(***************************************************************************)
(* shouldIgnoreVulnerability on every call of the model                    *)
(***************************************************************************)
Optional(S) == {Undefined} \cup {Some(x) : x \in S}

\* IgnorePackageRule: vulnerabilities, until, reason, all optional.
IgnorePackageRules ==
    [vulnerabilities : Optional(SeqsUpTo(Ids, 1)),
     until  : Optional({"", "2025-01-01", "next release"}),
     reason : Optional({"accepted risk"})]

\* IgnoreConfig: a global list and the rules per package, both optional.
IgnoreConfigs ==
    [ignore   : Optional(SeqsUpTo(Ids, 1)),
     packages : Optional({[name \in {"pkg"} |-> rule] : rule \in IgnorePackageRules})]

\* new Date() at the call: the day before, the day of and the day after the
\* until date of the model.
Times == {[valid |-> TRUE, time |-> t] : t \in {20088, 20089, 20090}}

InitIgnore ==
    /\ ClientIdle
    /\ TopIdle
    /\ AggIdle
    /\ DedupIdle
    /\ RetryIdle
    /\ UnitIdle
    /\ SeverityIdle
    /\ ProcIdle
    /\ QueryIdle
    /\ ignoreCall \in
          [vulnId : Ids, vulnAliases : Optional(AliasLists),
           packageName : Optional({"", "pkg", "other"}),
           config : IgnoreConfigs, now : Times]
    /\ ignoreVerdict = <<>>

ShouldIgnore ==
    /\ ignoreVerdict = <<>>
    /\ ignoreVerdict' =
          << shouldIgnoreVulnerability(ignoreCall.vulnId, ignoreCall.vulnAliases,
                                       ignoreCall.packageName,
                                       compileIgnoreConfig(ignoreCall.config),
                                       ignoreCall.now) >>
    /\ UNCHANGED <<ignoreCall, sevVars, procVars, qryVars, topVars, aggVars, dedupVars, clientVars, retryVars, unitVars>>

NextIgnore == ShouldIgnore

SpecIgnore == InitIgnore /\ [][NextIgnore]_vars

(***************************************************************************)
(* Severity classifier of the OSV source: mapSeverityToLevel               *)
(***************************************************************************)
\* String.prototype.toUpperCase on the strings the model upper-cases.
toUpperCase(s) ==
    IF s = "high" THEN "HIGH"
    ELSE IF s = "GHSA-x" THEN "GHSA-X"
    ELSE s

\* SECURITY.CVSS_FATAL_THRESHOLD (7.0), in tenths of a point.
CVSS_FATAL_THRESHOLD == 70

\* The number a decimal string denotes, in tenths; -1 when it is not a number.
decimalOf(s) ==
    IF s = "5.0" THEN 50
    ELSE IF s = "6.9" THEN 69
    ELSE IF s = "7.0" THEN 70
    ELSE IF s = "9.0" THEN 90
    ELSE IF s = "9.8" THEN 98
    ELSE -1

\* A score string is a sequence of pieces of text: a bare number, a word, or a
\* CVSS vector whose trailing token is the score. The score it carries, in
\* tenths; -1 when there is none.
parseScore(score) == IF score = <<>> THEN -1 ELSE decimalOf(score[Len(score)])

\* Only entries of a CVSS type carry a CVSS score.
isCvssType(type) == type \in {"CVSS_V2", "CVSS_V3"}

\* The highest CVSS score of the severity array, -1 when it has none.
RECURSIVE maxCvssScore(_)
maxCvssScore(entries) ==
    IF entries = <<>> THEN -1
    ELSE LET rest == maxCvssScore(Tail(entries))
             this == IF isCvssType(entries[1].type) THEN parseScore(entries[1].score) ELSE -1
         IN IF this > rest THEN this ELSE rest

\* The threshold test with > in place of >=.
isCvssScoreFatal_Strict(score) == score > CVSS_FATAL_THRESHOLD

\* score >= SECURITY.CVSS_FATAL_THRESHOLD
isCvssScoreFatal(score) == score >= CVSS_FATAL_THRESHOLD

\* The textual severity is one of the fatal ones, in any case of letters.
isFatalText(text) == toUpperCase(text) \in {"CRITICAL", "HIGH"}

\* mapSeverityToLevel(vuln): a fatal database_specific.severity decides at once;
\* otherwise the CVSS scores decide; otherwise warn.
mapSeverityToLevel(vuln) ==
    LET db   == vuln.database_specific
        text == IF IsDefined(db) THEN ValueOf(db).severity ELSE Undefined
    IN IF IsDefined(text) /\ isFatalText(ValueOf(text)) THEN "fatal"
       ELSE IF isCvssScoreFatal(maxCvssScore(orEmptyList(vuln.severity))) THEN "fatal"
       ELSE "warn"

(***************************************************************************)
(* mapSeverityToLevel on every severity representation of the model        *)
(***************************************************************************)
\* Length of the severity array of a vulnerability record.
MaxScores == 2

ScoreStrings ==
    { <<"5.0">>, <<"6.9">>, <<"7.0">>, <<"9.0">>, <<"severe">>,
      <<"CVSS:3.1/AV:N/AC:L/PR:N/UI:N/S:U/C:H/I:H/A:H", "/", "9.8">> }

SeverityEntries == [type : {"CVSS_V2", "CVSS_V3", "OTHER"}, score : ScoreStrings]

TextualSeverities == {"CRITICAL", "HIGH", "high", "MEDIUM", "LOW", "UNKNOWN"}

\* OSVVulnerability, restricted to the fields the classifier reads.
SeverityRecords ==
    [database_specific : Optional([severity : Optional(TextualSeverities)]),
     severity : Optional(SeqsUpTo(SeverityEntries, MaxScores))]

InitSeverity ==
    /\ ClientIdle
    /\ TopIdle
    /\ AggIdle
    /\ DedupIdle
    /\ RetryIdle
    /\ UnitIdle
    /\ IgnoreIdle
    /\ ProcIdle
    /\ QueryIdle
    /\ severityArg \in SeverityRecords
    /\ severityLevel = <<>>

Classify ==
    /\ severityLevel = <<>>
    /\ severityLevel' = <<mapSeverityToLevel(severityArg)>>
    /\ UNCHANGED <<severityArg, ignVars, procVars, qryVars, topVars, aggVars, dedupVars, clientVars, retryVars, unitVars>>

NextSeverity == Classify

SpecSeverity == InitSeverity /\ [][NextSeverity]_vars

(***************************************************************************)
(* Source processors: data                                                 *)
(***************************************************************************)
\* Lengths of the package list and of the record list of one processor run.
MaxPackages == 2
MaxRecords == 2

\* Bun.Security.Package: two installed versions of "pkg", one of "other".
Packages ==
    [name : {"pkg"}, version : {"1.0.0", "2.0.0"}] \cup [name : {"other"}, version : {"1.0.0"}]

\* vuln.affected: one entry for both versions of "pkg", one entry per version of
\* "pkg", one entry for "other".
OsvAffectedLists ==
    { << [package |-> [name |-> "pkg"], versions |-> <<"1.0.0", "2.0.0">>] >>,
      << [package |-> [name |-> "pkg"], versions |-> <<"1.0.0">>],
         [package |-> [name |-> "pkg"], versions |-> <<"2.0.0">>] >>,
      << [package |-> [name |-> "other"], versions |-> <<"1.0.0">>] >> }

\* OSVVulnerability, restricted to the fields the processor reads; the textual
\* severity varies on the records that have an affected list.
OsvRecords ==
    {r \in [id : {"GHSA-x", "CVE-1"},
            aliases : Optional({<<"CVE-1">>}),
            affected : Optional(OsvAffectedLists),
            database_specific : Optional({[severity |-> Some("HIGH")]}),
            severity : {Undefined}] :
        /\ r.id \notin Range(orEmptyList(r.aliases))
        /\ IsDefined(r.database_specific) =>
              (IsDefined(r.affected) /\ Len(ValueOf(r.affected)) = 1 /\ r.id = "GHSA-x")}

\* The identifiers (cves, github_advisory_id, url) an npm advisory comes with.
NpmIdentifiers ==
    LET plain == <<"https://example.com">>
        ghsa  == <<"https://github.com/advisories/", "GHSA-x">>
    IN { [cves |-> Undefined, github_advisory_id |-> Undefined, url |-> plain],
         [cves |-> Some(<<"CVE-1">>), github_advisory_id |-> Undefined, url |-> plain],
         [cves |-> Undefined, github_advisory_id |-> Some("GHSA-x"), url |-> plain],
         [cves |-> Undefined, github_advisory_id |-> Undefined, url |-> ghsa],
         [cves |-> Some(<<"CVE-1">>), github_advisory_id |-> Some("GHSA-x"), url |-> ghsa] }

\* The severity and cvss an npm advisory comes with; the score in tenths.
NpmSeverities ==
    { [severity |-> "high", cvss |-> Undefined],
      [severity |-> "moderate", cvss |-> Undefined],
      [severity |-> "moderate", cvss |-> Some([score |-> 90])] }

\* The name and module_name an npm advisory comes with.
NpmNames ==
    { [name |-> Some("pkg"), module_name |-> Undefined],
      [name |-> Undefined, module_name |-> Undefined] }

\* vulnerable_versions: a range that holds both versions of the model, one that
\* holds only 1.0.0, and a string that is no range.
Ranges == {"<3.0.0", "<2.0.0", "not a range"}

\* NpmAdvisory, restricted to the fields the processor reads. The advisories of
\* id 1234: for "pkg" at severity high with every range and every identifier,
\* for "pkg" with every severity, and one without a name; the advisories of id
\* 5678 for "pkg" at severity high.
NpmRecords ==
    { [id |-> 1234, name |-> Some("pkg"), module_name |-> Undefined,
       severity |-> "high", cvss |-> Undefined, vulnerable_versions |-> v,
       cves |-> a.cves, github_advisory_id |-> a.github_advisory_id, url |-> a.url] :
          v \in Ranges, a \in NpmIdentifiers }
    \cup
    { [id |-> 1234, name |-> n.name, module_name |-> n.module_name,
       severity |-> s.severity, cvss |-> s.cvss, vulnerable_versions |-> "<3.0.0",
       cves |-> Undefined, github_advisory_id |-> Undefined,
       url |-> <<"https://example.com">>] : n \in NpmNames, s \in NpmSeverities }
    \cup
    { [id |-> 5678, name |-> Some("pkg"), module_name |-> Undefined,
       severity |-> "high", cvss |-> Undefined, vulnerable_versions |-> v,
       cves |-> Undefined, github_advisory_id |-> Undefined,
       url |-> <<"https://example.com">>] : v \in Ranges }

\* The ignore configs of the processor runs: a global list with a CVE or with a
\* GHSA id written in lower case, a rule for "pkg" with or without an until date.
ProcConfigs ==
    [ignore   : Optional({<<"CVE-1">>, <<"GHSA-x">>}),
     packages : Optional({[name \in {"pkg"} |->
                              [vulnerabilities |-> Some(<<"GHSA-x">>),
                               until |-> Undefined, reason |-> Undefined]]})]

\* new Date() during the processor runs of the model.
ProcTime == [valid |-> TRUE, time |-> 20090]

(***************************************************************************)
(* Source processors: shared steps                                         *)
(***************************************************************************)
\* `${id}:${pkg.name}@${pkg.version}`
pairKey(id, pkg) == id \o ":" \o pkg.name \o "@" \o pkg.version

\* The accumulators of one run: the advisories pushed so far, the Set
\* processedPairs and the counter ignoredCount; threw once an exception has left
\* the loops.
emptyRun(count) ==
    [advisories |-> <<>>, processedPairs |-> {}, ignoredCount |-> count, threw |-> FALSE]

\* An exception no try block of the processor catches ends the run.
onThrown(st) == [st EXCEPT !.threw = TRUE]

\* The ignored branch without the increment of the counter.
onIgnored_NotCounted(st, key) ==
    [st EXCEPT !.processedPairs = @ \cup {key}]

\* if (ignoreResult.ignored) { ignoredCount++; processedPairs.add(pairKey); continue }
onIgnored(st, key) ==
    [st EXCEPT !.ignoredCount = @ + 1, !.processedPairs = @ \cup {key}]

\* The push without the entry in processedPairs.
onCreated_PairNotRecorded(st, key, advisory) ==
    [st EXCEPT !.advisories = Append(@, advisory)]

\* advisories.push(advisory); processedPairs.add(pairKey)
onCreated(st, key, advisory) ==
    [st EXCEPT !.advisories = Append(@, advisory), !.processedPairs = @ \cup {key}]

(***************************************************************************)
(* OSV processor: createVulnerabilityProcessor                             *)
(***************************************************************************)
\* isPackageAffected(pkg, affected) for an entry that lists its versions.
isPackageAffected(pkg, affected) ==
    affected.package.name = pkg.name /\ pkg.version \in Range(affected.versions)

\* createAdvisory(vuln, pkg): id, message, level, package, url, description; the
\* object has no aliases, which every reader takes as the empty list.
createAdvisory(vuln, pkg) ==
    [id |-> vuln.id, aliases |-> <<>>, level |-> mapSeverityToLevel(vuln), package |-> pkg.name]

\* packagesByName.get(name): the packages of that name in input order, the empty
\* list standing for undefined.
packagesByName(packages, name) ==
    LET HasName(p) == p.name = name
    IN SelectSeq(packages, HasName)

\* for (const pkg of matchingPackages), from position k on; it ends at the first
\* advisory created (break).
RECURSIVE osvPackagesLoop(_, _, _, _, _, _)
osvPackagesLoop(vuln, affected, matching, k, env, st) ==
    IF k > Len(matching) THEN st
    ELSE LET pkg == matching[k]
             key == pairKey(vuln.id, pkg)
         IN IF key \in st.processedPairs
            THEN osvPackagesLoop(vuln, affected, matching, k + 1, env, st)
            ELSE IF ~isPackageAffected(pkg, affected)
            THEN osvPackagesLoop(vuln, affected, matching, k + 1, env, st)
            ELSE IF shouldIgnoreVulnerability(vuln.id, vuln.aliases, Some(pkg.name),
                                              env.config, env.now).ignored
            THEN osvPackagesLoop(vuln, affected, matching, k + 1, env, onIgnored(st, key))
            ELSE onCreated(st, key, createAdvisory(vuln, pkg))

\* for (const affected of vuln.affected), from position a on.
RECURSIVE osvAffectedLoop(_, _, _, _, _)
osvAffectedLoop(vuln, packages, a, env, st) ==
    LET entries == orEmptyList(vuln.affected)
    IN IF a > Len(entries) THEN st
       ELSE osvAffectedLoop(vuln, packages, a + 1, env,
                osvPackagesLoop(vuln, entries[a],
                                packagesByName(packages, entries[a].package.name), 1, env, st))

\* processVulnerability(vuln, packagesByName, processedPairs, compiledConfig)
processVulnerability(vuln, packages, env, st) ==
    IF ~IsDefined(vuln.affected) THEN st ELSE osvAffectedLoop(vuln, packages, 1, env, st)

RECURSIVE osvRecordsLoop(_, _, _, _, _)
osvRecordsLoop(vulnerabilities, packages, n, env, st) ==
    IF n > Len(vulnerabilities) THEN st
    ELSE osvRecordsLoop(vulnerabilities, packages, n + 1, env,
             processVulnerability(vulnerabilities[n], packages, env, st))

\* processVulnerabilities(vulnerabilities, packages) of a processor whose counter
\* holds count: the advisories returned and the counter afterwards.
processVulnerabilities(vulnerabilities, packages, env, count) ==
    IF Len(vulnerabilities) = 0 \/ Len(packages) = 0
    THEN emptyRun(count)
    ELSE osvRecordsLoop(vulnerabilities, packages, 1, env, emptyRun(0))

(***************************************************************************)
(* npm processor: createAdvisoryProcessor                                  *)
(***************************************************************************)
\* String(advisory.id) for the numeric ids of the model.
numberToString(n) == IF n = 1234 THEN "1234" ELSE "5678"

\* The text is a GHSA id, in any case of letters: the pattern
\* /GHSA-[0-9a-z]{4}-[0-9a-z]{4}-[0-9a-z]{4}/i on a piece of the url.
isGhsaShaped(piece) == toUpperCase(piece) = "GHSA-X"

\* extractGhsaFromUrl(url): the first match, upper-cased, or null.
extractGhsaFromUrl(url) ==
    LET hits == {i \in 1..Len(url) : isGhsaShaped(url[i])}
    IN IF hits = {} THEN Undefined
       ELSE Some(toUpperCase(url[CHOOSE i \in hits : \A j \in hits : i <= j]))

\* buildAliases(advisory): the Set of the cves, the upper-cased github_advisory_id
\* and the GHSA id found in the url, as an array.
buildAliases(advisory) ==
    LET fromId  == IF isTruthy(advisory.github_advisory_id)
                   THEN <<toUpperCase(ValueOf(advisory.github_advisory_id))>>
                   ELSE <<>>
        fromUrl == extractGhsaFromUrl(advisory.url)
    IN Distinct(orEmptyList(advisory.cves) \o fromId \o
                (IF IsDefined(fromUrl) THEN <<ValueOf(fromUrl)>> ELSE <<>>))

\* Bun.semver.satisfies(version, range) on the versions and ranges of the model;
\* a string that is no version or no range makes it fail, which is taken as the
\* exception the try block of isVersionAffected is written for.
semverSatisfies(version, range) ==
    IF version \notin {"1.0.0", "2.0.0"} THEN "throws"
    ELSE IF range = "<3.0.0" THEN "true"
    ELSE IF range = "<2.0.0" THEN (IF version = "1.0.0" THEN "true" ELSE "false")
    ELSE "throws"

\* isVersionAffected with the arguments of Bun.semver.satisfies exchanged.
isVersionAffected_ArgumentsSwapped(version, vulnerableVersions) ==
    LET answer == semverSatisfies(vulnerableVersions, version)
    IN IF answer = "throws" THEN "false" ELSE answer

\* isVersionAffected without the try block: the exception leaves the function.
isVersionAffected_NoCatch(version, vulnerableVersions) ==
    semverSatisfies(version, vulnerableVersions)

\* isVersionAffected(version, vulnerableVersions): the answer of
\* Bun.semver.satisfies, and "false" from the catch block when it throws.
isVersionAffected(version, vulnerableVersions) ==
    LET answer == semverSatisfies(version, vulnerableVersions)
    IN IF answer = "throws" THEN "false" ELSE answer

\* mapSeverityToLevel(severity) of the npm source: critical and high are fatal.
npmMapSeverityToLevel(severity) ==
    IF severity \in {"critical", "high"} THEN "fatal" ELSE "warn"

\* createBunAdvisory(advisory, pkg, aliases): the level comes from the textual
\* severity alone.
createBunAdvisory(advisory, pkg, aliases) ==
    [id |-> numberToString(advisory.id), aliases |-> aliases,
     level |-> npmMapSeverityToLevel(advisory.severity), package |-> pkg.name]

\* advisory.name || advisory.module_name
advisoryPackageName(advisory) ==
    IF isTruthy(advisory.name) THEN advisory.name ELSE advisory.module_name

\* for (const pkg of packages) of processAdvisory, from position k on.
RECURSIVE npmPackagesLoop(_, _, _, _, _, _)
npmPackagesLoop(advisory, aliases, packages, k, env, st) ==
    IF k > Len(packages) THEN st
    ELSE LET pkg == packages[k]
             key == pairKey(numberToString(advisory.id), pkg)
         IN IF pkg.name # ValueOf(advisoryPackageName(advisory))
            THEN npmPackagesLoop(advisory, aliases, packages, k + 1, env, st)
            ELSE IF key \in st.processedPairs
            THEN npmPackagesLoop(advisory, aliases, packages, k + 1, env, st)
            ELSE IF isVersionAffected(pkg.version, advisory.vulnerable_versions) = "throws"
            THEN onThrown(st)
            ELSE IF isVersionAffected(pkg.version, advisory.vulnerable_versions) = "false"
            THEN npmPackagesLoop(advisory, aliases, packages, k + 1, env, st)
            ELSE IF shouldIgnoreVulnerability(numberToString(advisory.id), Some(aliases),
                                              Some(pkg.name), env.config, env.now).ignored
            THEN npmPackagesLoop(advisory, aliases, packages, k + 1, env, onIgnored(st, key))
            ELSE npmPackagesLoop(advisory, aliases, packages, k + 1, env,
                     onCreated(st, key, createBunAdvisory(advisory, pkg, aliases)))

\* processAdvisory(advisory, packages, processedPairs, compiledConfig)
processAdvisory(advisory, packages, env, st) ==
    IF ~isTruthy(advisoryPackageName(advisory)) THEN st
    ELSE npmPackagesLoop(advisory, buildAliases(advisory), packages, 1, env, st)

RECURSIVE npmRecordsLoop(_, _, _, _, _)
npmRecordsLoop(advisories, packages, n, env, st) ==
    IF n > Len(advisories) \/ st.threw THEN st
    ELSE npmRecordsLoop(advisories, packages, n + 1, env,
             processAdvisory(advisories[n], packages, env, st))

\* processAdvisories(advisories, packages) of a processor whose counter holds
\* count: the advisories returned and the counter afterwards.
processAdvisories(advisories, packages, env, count) ==
    IF Len(advisories) = 0 \/ Len(packages) = 0
    THEN emptyRun(count)
    ELSE npmRecordsLoop(advisories, packages, 1, env, emptyRun(0))

(***************************************************************************)
(* One run of a processor, and one scan in mode "both"                     *)
(***************************************************************************)
\* Records of one database under one id are one record.
OneRecordPerId(records) ==
    \A i, j \in 1..Len(records) : records[i].id = records[j].id => records[i] = records[j]

\* The npm records of the scans in mode "both": named, high, affecting both
\* versions.
NpmBothRecords ==
    {r \in NpmRecords : IsDefined(r.name) /\ r.severity = "high" /\ r.vulnerable_versions = "<3.0.0"}

\* The lists of one run: package lists, and record lists of each database.
PackageLists == SeqsUpTo(Packages, MaxPackages)

\* A package whose version string is no semver version, and the package lists of
\* the npm runs: those above, and the lists that hold this package.
UnparsablePackage == [name |-> "pkg", version |-> "latest"]

NpmPackageLists ==
    PackageLists \cup {<<UnparsablePackage>>}
                 \cup {<<UnparsablePackage, p>> : p \in Packages}
                 \cup {<<p, UnparsablePackage>> : p \in Packages}

OsvRecordLists == {l \in SeqsUpTo(OsvRecords, MaxRecords) : OneRecordPerId(l)}

NpmRecordLists == {l \in SeqsUpTo(NpmRecords, MaxRecords) : OneRecordPerId(l)}

OsvBothLists == SeqsUpTo(OsvRecords, 1)

NpmBothLists == {l \in SeqsUpTo(NpmBothRecords, MaxRecords - 1) : OneRecordPerId(l)}

\* The input of a run of the given kind.
procInputOf(kind, vulnerabilities, advisories, packages, cfg) ==
    [kind |-> kind, vulnerabilities |-> vulnerabilities, advisories |-> advisories,
     packages |-> packages, config |-> cfg]

\* What the processors of a run are given besides the lists.
procEnv == [config |-> compileIgnoreConfig(procInput.config), now |-> ProcTime]

InitProc ==
    /\ ClientIdle
    /\ TopIdle
    /\ AggIdle
    /\ DedupIdle
    /\ RetryIdle
    /\ UnitIdle
    /\ IgnoreIdle
    /\ SeverityIdle
    /\ QueryIdle
    /\ \E c \in ProcConfigs :
          \/ \E p \in PackageLists, v \in OsvRecordLists :
                procInput = procInputOf("osv", v, <<>>, p, c)
          \/ \E p \in NpmPackageLists, a \in NpmRecordLists :
                procInput = procInputOf("npm", <<>>, a, p, c)
          \/ \E p \in PackageLists, v \in OsvBothLists, a \in NpmBothLists :
                procInput = procInputOf("both", v, a, p, c)
    /\ procOutput = <<>>
    /\ ignoredCount = 0

\* processor.processVulnerabilities(vulnerabilities, packages) of the OSV source.
ProcessOsv ==
    /\ procOutput = <<>>
    /\ procInput.kind = "osv"
    /\ LET run == processVulnerabilities(procInput.vulnerabilities, procInput.packages,
                                         procEnv, ignoredCount)
       IN /\ procOutput' = <<run.advisories>>
          /\ ignoredCount' = run.ignoredCount
    /\ UNCHANGED <<procInput, ignVars, sevVars, qryVars, topVars, aggVars, dedupVars, clientVars, retryVars, unitVars>>

\* processor.processAdvisories(advisories, packages) of the npm source.
ProcessNpm ==
    /\ procOutput = <<>>
    /\ procInput.kind = "npm"
    /\ LET run == processAdvisories(procInput.advisories, procInput.packages,
                                    procEnv, ignoredCount)
       IN /\ procOutput' = IF run.threw THEN <<run.advisories, "threw">>
                           ELSE <<run.advisories>>
          /\ ignoredCount' = run.ignoredCount
    /\ UNCHANGED <<procInput, ignVars, sevVars, qryVars, topVars, aggVars, dedupVars, clientVars, retryVars, unitVars>>

\* A scan in mode "both" from the records the two clients return: each source
\* processes its records, the aggregator collects [osv, npm] and de-duplicates.
ScanBoth ==
    /\ procOutput = <<>>
    /\ procInput.kind = "both"
    /\ LET osv == processVulnerabilities(procInput.vulnerabilities, procInput.packages,
                                         procEnv, 0)
           npm == IF Len(procInput.packages) = 0 THEN emptyRun(0)
                  ELSE processAdvisories(procInput.advisories, procInput.packages, procEnv, 0)
           all == osv.advisories \o npm.advisories
           out == deduplicateAdvisories(all)
       IN /\ procOutput' = <<[n \in 1..Len(out) |-> all[out[n]]]>>
          /\ ignoredCount' = osv.ignoredCount + npm.ignoredCount
    /\ UNCHANGED <<procInput, ignVars, sevVars, qryVars, topVars, aggVars, dedupVars, clientVars, retryVars, unitVars>>

NextProc ==
    \/ ProcessOsv
    \/ ProcessNpm
    \/ ScanBoth

SpecProc == InitProc /\ [][NextProc]_vars

(***************************************************************************)
(* Source clients: the requests of one queryVulnerabilities call           *)
(***************************************************************************)
MaxInput == 4

\* A batch size small enough for the package lists of the model to be chunked.
ChunkLimit == 2

\* OSV_API.MAX_BATCH_SIZE
MAX_BATCH_SIZE == 1000

\* NPM_AUDIT_API.MAX_PACKAGES_PER_REQUEST
MAX_PACKAGES_PER_REQUEST == 1000

\* Bun.Security.Package of the client calls: a plain name, a scoped name and a
\* name that is also a property of Object.prototype, two versions each.
QueryPackages == [name : {"pkg", "@scope/pkg", "constructor"}, version : {"1.0.0", "2.0.0"}]

QueryPackageLists == SeqsUpTo(QueryPackages, MaxInput)

\* The clients: OSV with or without the batch endpoint, npm; each with the batch
\* size of the constants or with the small one.
QueryClients ==
    [kind : {"osv"}, useBatch : BOOLEAN, batchSize : {MAX_BATCH_SIZE, ChunkLimit}]
    \cup [kind : {"npm"}, useBatch : {TRUE}, batchSize : {MAX_PACKAGES_PER_REQUEST, ChunkLimit}]

\* `${pkg.name}@${pkg.version}`
packageKey(pkg) == <<pkg.name, "@", pkg.version>>

\* for (const pkg of packages) { if (!packageMap.has(key)) packageMap.set(key, pkg) }
\* The Map is a list of entries in insertion order.
RECURSIVE packageMapLoop(_, _, _)
packageMapLoop(packages, k, packageMap) ==
    IF k > Len(packages) THEN packageMap
    ELSE LET key == packageKey(packages[k])
             has == \E i \in 1..Len(packageMap) : packageMap[i].key = key
         IN packageMapLoop(packages, k + 1,
                IF has THEN packageMap
                ELSE Append(packageMap, [key |-> key, value |-> packages[k]]))

\* The packages handed on as they came.
deduplicatePackages_KeepsAll(packages) == packages

\* deduplicatePackages(packages): Array.from(packageMap.values())
deduplicatePackages(packages) ==
    LET packageMap == packageMapLoop(packages, 1, <<>>)
    IN [i \in 1..Len(packageMap) |-> packageMap[i].value]

\* for (let i = 0; i < list.length; i += size) list.slice(i, i + size), from the
\* 1-based position i on.
RECURSIVE slicesFrom(_, _, _)
slicesFrom(list, i, size) ==
    IF i > Len(list) THEN <<>>
    ELSE LET last == IF i + size - 1 < Len(list) THEN i + size - 1 ELSE Len(list)
         IN <<SubSeq(list, i, last)>> \o slicesFrom(list, i + size, size)

\* uniquePackages.map((pkg) => ({package: {name, ecosystem}, version}))
osvQueryOf(pkg) ==
    [package |-> [name |-> pkg.name, ecosystem |-> "npm"], version |-> pkg.version]

\* The callee has run to its end (the requests it sent), or threw on the way.
returned(requests) == [threw |-> FALSE, requests |-> requests]

threwTypeError == [threw |-> TRUE, requests |-> <<>>]

\* queryVulnerabilities of the OSV client, as the bodies it posts: one
\* /querybatch body per slice of the queries, or one /query body per query.
osvQueryVulnerabilities(client, packages) ==
    IF Len(packages) = 0 THEN returned(<<>>)
    ELSE LET uniquePackages == deduplicatePackages(packages)
             queries == [i \in 1..Len(uniquePackages) |-> osvQueryOf(uniquePackages[i])]
             batches == slicesFrom(queries, 1, client.batchSize)
         IN IF client.useBatch /\ Len(queries) > 1
            THEN returned([b \in 1..Len(batches) |->
                              [url |-> "/querybatch", queries |-> batches[b]]])
            ELSE returned([q \in 1..Len(queries) |->
                              [url |-> "/query", queries |-> <<queries[q]>>]])

\* payload[name] of an object literal: its own property when it has one, else
\* what it inherits from Object.prototype, else undefined.
propertyOf(payload, name) ==
    IF \E i \in 1..Len(payload) : payload[i].name = name
    THEN [kind |-> "own", at |-> CHOOSE i \in 1..Len(payload) : payload[i].name = name]
    ELSE IF name = "constructor" THEN [kind |-> "inherited", at |-> 0]
    ELSE [kind |-> "undefined", at |-> 0]

\* buildRequestPayload(packages), from position k on; the payload is the list of
\* the object's own properties in insertion order. An inherited value is truthy
\* and has no includes method: the call versions.includes(...) throws.
RECURSIVE buildRequestPayloadLoop(_, _, _)
buildRequestPayloadLoop(packages, k, payload) ==
    IF k > Len(packages) THEN [threw |-> FALSE, payload |-> payload]
    ELSE LET pkg == packages[k]
             found == propertyOf(payload, pkg.name)
             withKey == IF found.kind = "undefined"
                        THEN Append(payload, [name |-> pkg.name, versions |-> <<>>])
                        ELSE payload
             versions == propertyOf(withKey, pkg.name)
         IN IF versions.kind = "inherited" THEN [threw |-> TRUE, payload |-> withKey]
            ELSE IF pkg.version \in Range(withKey[versions.at].versions)
            THEN buildRequestPayloadLoop(packages, k + 1, withKey)
            ELSE buildRequestPayloadLoop(packages, k + 1,
                    [withKey EXCEPT ![versions.at].versions = Append(@, pkg.version)])

buildRequestPayload(packages) == buildRequestPayloadLoop(packages, 1, <<>>)

\* queryInBatches(packages), from batch b on: one bulk body per slice.
RECURSIVE queryInBatchesLoop(_, _, _)
queryInBatchesLoop(batches, b, requests) ==
    IF b > Len(batches) THEN returned(requests)
    ELSE LET built == buildRequestPayload(batches[b])
         IN IF built.threw THEN threwTypeError
            ELSE queryInBatchesLoop(batches, b + 1,
                    Append(requests, [url |-> "/advisories/bulk", payload |-> built.payload]))

queryInBatches(client, packages) ==
    queryInBatchesLoop(slicesFrom(packages, 1, client.batchSize), 1, <<>>)

\* queryVulnerabilities of the npm client, as the bulk bodies it posts.
npmQueryVulnerabilities(client, packages) ==
    IF Len(packages) = 0 THEN returned(<<>>)
    ELSE LET uniquePackages == deduplicatePackages(packages)
             requestPayload == buildRequestPayload(uniquePackages)
         IN IF requestPayload.threw THEN threwTypeError
            ELSE IF Len(uniquePackages) > client.batchSize
            THEN queryInBatches(client, uniquePackages)
            ELSE returned(<<[url |-> "/advisories/bulk", payload |-> requestPayload.payload]>>)

InitQuery ==
    /\ ClientIdle
    /\ TopIdle
    /\ AggIdle
    /\ DedupIdle
    /\ RetryIdle
    /\ UnitIdle
    /\ IgnoreIdle
    /\ SeverityIdle
    /\ ProcIdle
    /\ \E c \in QueryClients, p \in QueryPackageLists :
          queryInput = [client |-> c, packages |-> p]
    /\ queryOutput = <<>>

\* client.queryVulnerabilities(packages) of the OSV source.
QueryOsv ==
    /\ queryOutput = <<>>
    /\ queryInput.client.kind = "osv"
    /\ queryOutput' = <<osvQueryVulnerabilities(queryInput.client, queryInput.packages)>>
    /\ UNCHANGED <<queryInput, ignVars, sevVars, procVars, topVars, aggVars, dedupVars, clientVars, retryVars, unitVars>>

\* client.queryVulnerabilities(packages) of the npm source.
QueryNpm ==
    /\ queryOutput = <<>>
    /\ queryInput.client.kind = "npm"
    /\ queryOutput' = <<npmQueryVulnerabilities(queryInput.client, queryInput.packages)>>
    /\ UNCHANGED <<queryInput, ignVars, sevVars, procVars, topVars, aggVars, dedupVars, clientVars, retryVars, unitVars>>

NextQuery ==
    \/ QueryOsv
    \/ QueryNpm

SpecQuery == InitQuery /\ [][NextQuery]_vars

(***************************************************************************)
(* A scan whose OSV source pages through querySinglePackage                *)
(***************************************************************************)
\* What the OSV service does with one /query request: an error answer that is
\* retried, one that is not, a timeout, a body that fails the schema, a last
\* page, and a page that carries a next_page_token.
PageAnswers ==
    { [type |-> "http", status |-> 500, body |-> "none"],
      [type |-> "http", status |-> 404, body |-> "none"],
      [type |-> "timeout", status |-> 0, body |-> "none"],
      [type |-> "http", status |-> 200, body |-> "malformed"],
      [type |-> "http", status |-> 200, body |-> "valid"],
      [type |-> "http", status |-> 200, body |-> "more"] }

\* What a source's scan resolves with: no advisory or one.
PageValues == {<<>>} \cup {<<a>> : a \in Advisory}

\* One turn of the while (true) of querySinglePackage once withRetry has settled:
\* a rejection and a body that fails the schema reach the catch block (break), a
\* page without next_page_token breaks, a page with one goes round again.
pageOutcome(pc, value) ==
    IF pc = "resolved" /\ value = "more" THEN "next" ELSE "break"

InitLive ==
    /\ ClientIdle
    /\ TopIdle
    /\ IgnoreIdle
    /\ SeverityIdle
    /\ ProcIdle
    /\ QueryIdle
    /\ DedupIdle
    /\ AggBefore(<<[name |-> "pkg", version |-> "1.0.0"]>>)
    /\ unitKind = "querySinglePackage"
    /\ unitState = "idle"
    /\ answers = <<>>
    /\ config = retryConfigOf(unitKind)
    /\ rpc = "idle"
    /\ attempt = 0
    /\ lastError = <<>>
    /\ calls = 0
    /\ sleeps = <<>>
    /\ outcomes = <<>>
    /\ retValue = "none"

\* The OSV source's scan reaches querySinglePackage (one query, so
\* queryIndividually): the first page is requested through withRetry.
PageRequest ==
    /\ scanState = "awaiting"
    /\ results[1].status = "pending"
    /\ unitState = "idle"
    /\ unitState' = "running"
    /\ withRetryCall
    /\ requested' = [requested EXCEPT ![1] = TRUE]
    /\ UNCHANGED <<unitKind, answers, scanState, results, allAdvisories, output, scanArg,
                   scanCalls, settleOrder, dedupVars, clientVars, pureVars>>

\* The service answers the /query request in flight, or the timeout ends it.
PageAnswered ==
    /\ unitState = "running"
    /\ rpc = "operation"
    /\ \E answer \in PageAnswers :
          /\ answers' = Append(answers, answer)
          /\ LET o == operationOf(unitKind, answer)
             IN IF o.ok THEN OnResolved(o.value) ELSE OnRejected(o.error)
    /\ UNCHANGED <<unitKind, unitState, aggVars, dedupVars, clientVars, pureVars>>

\* The page carried a next_page_token: currentQuery takes the token and the loop
\* calls withRetry anew, with its own counter and lastError.
PageFollows ==
    /\ unitState = "running"
    /\ rpc \in {"resolved", "rejected"}
    /\ pageOutcome(rpc, retValue) = "next"
    /\ answers' = <<>>
    /\ lastError' = UnknownError
    /\ attempt' = 1
    /\ rpc' = "operation"
    /\ calls' = 1
    /\ sleeps' = <<>>
    /\ outcomes' = <<>>
    /\ retValue' = "none"
    /\ UNCHANGED <<config, unitKind, unitState, aggVars, dedupVars, clientVars, pureVars>>

\* break: querySinglePackage returns the vulnerabilities of the pages it has.
PaginationEnds ==
    /\ unitState = "running"
    /\ rpc \in {"resolved", "rejected"}
    /\ pageOutcome(rpc, retValue) = "break"
    /\ unitState' = "returned"
    /\ UNCHANGED <<unitKind, answers, retryVars, aggVars, dedupVars, clientVars, pureVars>>

\* The OSV source processes what the client returned and its scan resolves.
OsvScanFulfils ==
    /\ scanState = "awaiting"
    /\ results[1].status = "pending"
    /\ unitState = "returned"
    /\ \E value \in PageValues :
          results' = [results EXCEPT ![1] = [status |-> "fulfilled", value |-> value]]
    /\ settleOrder' = Append(settleOrder, 1)
    /\ UNCHANGED <<scanState, allAdvisories, output, scanArg, scanCalls, requested,
                   dedupVars, clientVars, pureVars, retryVars, unitVars>>

\* The npm source's scan settles: its one bulk request is retried a bounded
\* number of times, then scan resolves or rejects.
NpmScanSettles ==
    /\ scanState = "awaiting"
    /\ results[2].status = "pending"
    /\ \/ \E value \in PageValues :
             results' = [results EXCEPT ![2] = [status |-> "fulfilled", value |-> value]]
       \/ results' = [results EXCEPT ![2] = [status |-> "rejected", value |-> <<>>]]
    /\ requested' = [requested EXCEPT ![2] = TRUE]
    /\ settleOrder' = Append(settleOrder, 2)
    /\ UNCHANGED <<scanState, allAdvisories, output, scanArg, scanCalls,
                   dedupVars, clientVars, pureVars, retryVars, unitVars>>

NextLive ==
    \/ ScanStart
    \/ PageRequest
    \/ PageAnswered
    \/ UnitSleepResolves
    \/ PageFollows
    \/ PaginationEnds
    \/ OsvScanFulfils
    \/ NpmScanSettles
    \/ ScanFinish

\* Every request is answered or timed out (AbortSignal.timeout), every sleep
\* ends, and every step of the code that can be taken is taken.
LiveFairness ==
    /\ WF_vars(PageRequest)
    /\ WF_vars(PageAnswered)
    /\ WF_vars(UnitSleepResolves)
    /\ WF_vars(PageFollows)
    /\ WF_vars(PaginationEnds)
    /\ WF_vars(OsvScanFulfils)
    /\ WF_vars(NpmScanSettles)
    /\ WF_vars(ScanFinish)

SpecLive == InitLive /\ [][NextLive]_vars /\ LiveFairness

(***************************************************************************)
(* The scanner: scanner.scan and createMultiSourceScanner                  *)
(***************************************************************************)
DEFAULT_SOURCE == "osv"

\* CONFIG_DEFAULTS.bunReportWarnings
DefaultBunReportWarnings == TRUE

\* The JSON of a config file, restricted to the two fields scan reads: source as
\* the string written, bunReportWarnings as the JSON text written (a boolean, or
\* the string "no").
ConfigFileContents ==
    [source : Optional({"both", "bogus"}),
     bunReportWarnings : Optional({"true", "false", "\"no\""})]

\* ConfigSchema.parse(content): a source outside the enum is caught and becomes
\* DEFAULT_SOURCE; a bunReportWarnings that is no boolean is a ZodError.
ConfigSchemaParse(content) ==
    IF IsDefined(content.bunReportWarnings)
       /\ ValueOf(content.bunReportWarnings) \notin {"true", "false"}
    THEN [threw |-> TRUE, config |-> Undefined]
    ELSE [threw |-> FALSE,
          config |-> Some([source |-> IF ~IsDefined(content.source) THEN Undefined
                                      ELSE IF ValueOf(content.source) \in {"osv", "npm", "both"}
                                      THEN content.source
                                      ELSE Some(DEFAULT_SOURCE),
                           bunReportWarnings |->
                               IF ~IsDefined(content.bunReportWarnings) THEN Undefined
                               ELSE Some(ValueOf(content.bunReportWarnings) = "true")])]

\* tryLoadConfigFile(filename): null for a file that does not exist and, from the
\* catch block, for one that does not parse.
tryLoadConfigFile(file) ==
    IF ~IsDefined(file) THEN Undefined
    ELSE LET parsed == ConfigSchemaParse(ValueOf(file))
         IN IF parsed.threw THEN Undefined ELSE parsed.config

\* mergeConfig(fileConfig): the defaults, overridden by what the file sets.
mergeConfig(fileConfig) ==
    [source |-> IF IsDefined(fileConfig) /\ IsDefined(ValueOf(fileConfig).source)
                THEN ValueOf(fileConfig).source ELSE Some(DEFAULT_SOURCE),
     bunReportWarnings |->
                IF IsDefined(fileConfig) /\ IsDefined(ValueOf(fileConfig).bunReportWarnings)
                THEN ValueOf(fileConfig).bunReportWarnings
                ELSE Some(DefaultBunReportWarnings)]

\* loadConfig(): the first of the CONFIG_FILES that loads is merged; none is the
\* defaults.
RECURSIVE loadConfigFrom(_, _)
loadConfigFrom(files, n) ==
    IF n > Len(files) THEN mergeConfig(Undefined)
    ELSE LET loaded == tryLoadConfigFile(files[n])
         IN IF IsDefined(loaded) THEN mergeConfig(loaded) ELSE loadConfigFrom(files, n + 1)

loadConfig(files) == loadConfigFrom(files, 1)

\* createMultiSourceScanner without the check of the source list.
createMultiSourceScanner_Unchecked(sources) == [threw |-> FALSE, sources |-> sources]

\* createMultiSourceScanner(sources): throws for no sources, before it returns
\* the object whose scan calls them.
createMultiSourceScanner(sources) ==
    IF Len(sources) = 0 THEN [threw |-> TRUE, sources |-> <<>>]
    ELSE [threw |-> FALSE, sources |-> sources]

\* How a call ends: scan resolves with a list or rejects; the constructor returns
\* or throws.
ended(status, value, sources) == [status |-> status, value |-> value, sources |-> sources]

\* A catch block that throws the error on.
catchError_Rethrows(error) == ended("rejected", <<>>, <<>>)

\* catch (error) { logger.error(...); return [] }
catchError(error) == ended("resolved", <<>>, <<>>)

\* The filter left out: the aggregated result as it is.
reported_Unfiltered(advisories, bunReportWarnings) == advisories

\* if (!bunReportWarnings) return the advisories of level "fatal"; otherwise all
\* of them.
reported(advisories, bunReportWarnings) ==
    LET IsFatal(a) == a.level = "fatal"
    IN IF ~bunReportWarnings THEN SelectSeq(advisories, IsFatal) ELSE advisories

\* The body of scanner.scan({ packages }): call.fault is the step in which
\* something outside the function raises an error, call.aggregated is what
\* multiScanner.scan resolves with.
scannerScan(call) ==
    IF call.fault = "loadConfig" THEN catchError("loadConfig")
    ELSE LET merged == loadConfig(call.files)
             bunReportWarnings == IF IsDefined(merged.bunReportWarnings)
                                  THEN ValueOf(merged.bunReportWarnings)
                                  ELSE DefaultBunReportWarnings
             created == createSources(IF IsDefined(merged.source) THEN ValueOf(merged.source)
                                      ELSE "osv")
         IN IF created.threw \/ call.fault = "createSources" THEN catchError("createSources")
            ELSE LET multiScanner == createMultiSourceScanner(created.sources)
                 IN IF multiScanner.threw THEN catchError("createMultiSourceScanner")
                    ELSE IF call.fault = "scan" THEN catchError("scan")
                    ELSE ended("resolved", reported(call.aggregated, bunReportWarnings),
                               multiScanner.sources)

\* The steps of scan in which an error can be raised from outside, or none.
Faults == {"none", "loadConfig", "createSources", "scan"}

\* What multiScanner.scan resolves with: lists of advisories of both levels.
TopAdvisories == [id : {"GHSA-x", "CVE-1"}, aliases : {<<>>}, level : Levels, package : {"pkg"}]

AggregatedLists == SeqsUpTo(TopAdvisories, MaxReturned)

\* The two CONFIG_FILES: each is absent or holds a content.
ConfigFiles == Optional(ConfigFileContents)

\* The source lists createMultiSourceScanner is called with on its own.
SourceLists == {<<>>, <<"osv">>, <<"npm">>, <<"osv", "npm">>}

InitTop ==
    /\ ClientIdle
    /\ AggIdle
    /\ DedupIdle
    /\ RetryIdle
    /\ UnitIdle
    /\ IgnoreIdle
    /\ SeverityIdle
    /\ ProcIdle
    /\ QueryIdle
    /\ \/ \E first \in ConfigFiles, second \in ConfigFiles, fault \in Faults,
             aggregated \in AggregatedLists :
                topCall = [kind |-> "scan", files |-> <<first, second>>, fault |-> fault,
                           aggregated |-> aggregated, sources |-> <<>>]
       \/ \E sources \in SourceLists :
                topCall = [kind |-> "construct", files |-> <<>>, fault |-> "none",
                           aggregated |-> <<>>, sources |-> sources]
    /\ topResult = <<>>

\* scanner.scan({ packages }) from its call to the value it settles with.
TopScan ==
    /\ topResult = <<>>
    /\ topCall.kind = "scan"
    /\ topResult' = <<scannerScan(topCall)>>
    /\ UNCHANGED <<topCall, ignVars, sevVars, procVars, qryVars, aggVars, dedupVars, clientVars,
                   retryVars, unitVars>>

\* createMultiSourceScanner(sources), called on its own.
Construct ==
    /\ topResult = <<>>
    /\ topCall.kind = "construct"
    /\ LET made == createMultiSourceScanner(topCall.sources)
       IN topResult' = << ended(IF made.threw THEN "threw" ELSE "returned", <<>>,
                                made.sources) >>
    /\ UNCHANGED <<topCall, ignVars, sevVars, procVars, qryVars, aggVars, dedupVars, clientVars,
                   retryVars, unitVars>>

NextTop ==
    \/ TopScan
    \/ Construct

SpecTop == InitTop /\ [][NextTop]_vars

(***************************************************************************)
(* OSV client: queryWithBatch and fetchVulnerabilityDetails                *)
(***************************************************************************)
\* PERFORMANCE.MAX_CONCURRENT_DETAILS
MAX_CONCURRENT_DETAILS == 10

\* The ids in the body of one /querybatch answer: none, one, two, two others,
\* and the same id twice.
BatchIdLists ==
    { <<>>, <<"GHSA-x">>, <<"GHSA-x", "CVE-1">>, <<"CVE-1", "CVE-2">>, <<"CVE-1", "CVE-1">> }

\* How many queries queryWithBatch is called with, at most.
MaxQueries == 3

\* What the service answers to a /querybatch request: a failure that is retried,
\* one that is not, a body that fails the schema, or a body with the ids of the
\* batch (an id may occur more than once in it).
BatchAnswers ==
    { [type |-> "http", status |-> 500, body |-> "none", ids |-> <<>>],
      [type |-> "http", status |-> 404, body |-> "none", ids |-> <<>>],
      [type |-> "http", status |-> 200, body |-> "malformed", ids |-> <<>>] }
    \cup [type : {"http"}, status : {200}, body : {"valid"}, ids : BatchIdLists]

\* What the service answers to a /vulns/{id} request.
DetailAnswers ==
    { [type |-> "http", status |-> 500, body |-> "none"],
      [type |-> "http", status |-> 404, body |-> "none"],
      [type |-> "timeout", status |-> 0, body |-> "none"],
      [type |-> "http", status |-> 200, body |-> "malformed"],
      [type |-> "http", status |-> 200, body |-> "valid"] }

\* withRetry around the request of a client function, once the service has
\* answered attempt att: "resolved", "rejected", or "sleep" before the next attempt.
retryStep(kind, att, answer) ==
    LET o == operationOf(kind, answer)
    IN IF o.ok THEN afterSuccess(att, retryConfigOf(kind))
       ELSE IF stopsRetrying(att, retryConfigOf(kind), o.error) THEN "rejected"
       ELSE "sleep"

\* The request of one call of a client function: not called yet, and its first
\* attempt on the wire.
NotCalled == [state |-> "waiting", attempt |-> 0, ids |-> <<>>]
FirstAttempt == [state |-> "fetch", attempt |-> 1, ids |-> <<>>]

\* The call has settled: it returned (a value or null) or threw; the loop counter
\* of its withRetry is gone.
hasSettled(request) == request.state \in {"returned", "returnedNull", "threw"}

\* A call after the service has answered its request in flight.
afterAnswer(kind, request, answer, ids) ==
    LET step == retryStep(kind, request.attempt, answer)
    IN IF step = "sleep" THEN [request EXCEPT !.state = "sleep"]
       ELSE LET settledAs == unitOutcome(kind, step, operationOf(kind, answer).value)
            IN [state |-> settledAs, attempt |-> 0,
                ids |-> IF settledAs = "returned" THEN ids ELSE <<>>]

\* A call after its backoff sleep: attempt++ and the next request goes out.
afterSleep(kind, request) ==
    IF loopContinues(request.attempt + 1, retryConfigOf(kind))
    THEN [request EXCEPT !.state = "fetch", !.attempt = @ + 1]
    ELSE [state |-> unitOutcome(kind, "rejected", "none"), attempt |-> 0, ids |-> <<>>]

\* The vulnerability record parsed from the body of /vulns/{id}.
recordOf(id) == [id |-> id]

\* uniqueIds.slice(i, i + chunkSize), as 1-based positions.
chunkOf(uniqueIds, i, chunkSize) ==
    {p \in 1..Len(uniqueIds) : p >= i /\ p < i + chunkSize}

\* The for loop of fetchVulnerabilityDetails with every fetch of one chunk
\* started at once, whatever chunkSize is.
startsChunk_WholeList(uniqueIds, i, chunkSize) ==
    [p \in 1..Len(uniqueIds) |-> IF p >= i THEN FirstAttempt ELSE NotCalled]

\* chunk.map((id) => this.fetchSingleVulnerability(id)): the fetches of the chunk
\* at i are started.
startsChunk(uniqueIds, i, chunkSize) ==
    [p \in 1..Len(uniqueIds) |->
        IF p \in chunkOf(uniqueIds, i, chunkSize) THEN FirstAttempt ELSE NotCalled]

\* The values pushed for one settled chunk: the fulfilled results that are not
\* null, in the order of the chunk.
RECURSIVE chunkValues(_, _, _, _)
chunkValues(uniqueIds, requests, p, last) ==
    IF p > last THEN <<>>
    ELSE (IF requests[p].state = "returned" THEN <<recordOf(uniqueIds[p])>> ELSE <<>>)
         \o chunkValues(uniqueIds, requests, p + 1, last)

\* The catch block of the loop of queryWithBatch rethrowing the error.
onBatchFailed_Rethrows == "throw"

\* The catch block of the loop of queryWithBatch: log and continue.
onBatchFailed == "continue"

\* The loop of queryWithBatch without the await: every batch is sent at once.
sendsWith_NoAwait(batches, k) == {j \in 1..Len(batches) : j >= k}

\* The batches whose request goes out when the loop reaches batch k: the call of
\* executeBatchQuery is awaited, so batch k alone.
sendsWith(batches, k) == {k}

\* The queries of the call, cut into batches.
batchesOf(call) == slicesFrom(call.queries, 1, call.batchSize)

InitBatch ==
    /\ TopIdle
    /\ IgnoreIdle
    /\ SeverityIdle
    /\ ProcIdle
    /\ QueryIdle
    /\ AggIdle
    /\ DedupIdle
    /\ RetryIdle
    /\ UnitIdle
    /\ PagesIdle
    /\ NpmIdle
    /\ \E n \in 2..MaxQueries, b \in {MAX_BATCH_SIZE, ChunkLimit},
          c \in {MAX_CONCURRENT_DETAILS, ChunkLimit} :
          batchCall = [queries |-> [i \in 1..n |-> i], batchSize |-> b, chunkSize |-> c]
    /\ batchState = "idle"
    /\ batchRequests = <<>>
    /\ vulnerabilityIds = <<>>
    /\ chunkAt = 0
    /\ detailRequests = <<>>
    /\ detailVulnerabilities = <<>>

\* fetchVulnerabilityDetails(ids) is called: an empty list returns at once,
\* otherwise the fetches of the first chunk of the unique ids are started.
DetailsFrom(ids) ==
    IF Len(ids) = 0
    THEN /\ batchState' = "returned"
         /\ UNCHANGED <<chunkAt, detailRequests, detailVulnerabilities>>
    ELSE /\ batchState' = "details"
         /\ chunkAt' = 1
         /\ detailRequests' = startsChunk(Distinct(ids), 1, batchCall.chunkSize)
         /\ UNCHANGED detailVulnerabilities

\* queryWithBatch goes on after the call of executeBatchQuery for batch k has
\* settled, requests being the calls with that one settled.
BatchesFrom(requests, k) ==
    LET batchIds == requests[k].ids
        ids == IF requests[k].state = "returned"
               THEN vulnerabilityIds \o batchIds ELSE vulnerabilityIds
    IN IF requests[k].state = "threw" /\ onBatchFailed = "throw"
       THEN /\ batchState' = "rejected"
            /\ batchRequests' = requests
            /\ UNCHANGED <<vulnerabilityIds, chunkAt, detailRequests, detailVulnerabilities>>
       ELSE /\ vulnerabilityIds' = ids
            /\ IF k < Len(requests)
               THEN /\ batchRequests' =
                          [j \in 1..Len(requests) |->
                              IF requests[j].state = "waiting"
                                 /\ j \in sendsWith(batchesOf(batchCall), k + 1)
                              THEN FirstAttempt ELSE requests[j]]
                    /\ UNCHANGED <<batchState, chunkAt, detailRequests, detailVulnerabilities>>
               ELSE /\ batchRequests' = requests
                    /\ DetailsFrom(ids)

\* queryWithBatch(queries) is called: the request of the first batch goes out.
QueryWithBatch ==
    /\ batchState = "idle"
    /\ batchState' = "batches"
    /\ batchRequests' =
          [j \in 1..Len(batchesOf(batchCall)) |->
              IF j \in sendsWith(batchesOf(batchCall), 1) THEN FirstAttempt ELSE NotCalled]
    /\ UNCHANGED <<batchCall, vulnerabilityIds, chunkAt, detailRequests, detailVulnerabilities>>
    /\ UNCHANGED <<aggVars, dedupVars, retryVars, unitVars, pureVars, pageVars, npmVars>>

\* The first batch whose call of executeBatchQuery has not settled: the one the
\* loop of queryWithBatch is waiting for.
awaitedBatch == CHOOSE k \in 1..Len(batchRequests) :
                    /\ ~hasSettled(batchRequests[k])
                    /\ \A j \in 1..(k - 1) : hasSettled(batchRequests[j])

\* The service answers the /querybatch request of batch k.
BatchAnswered(k) ==
    /\ batchState = "batches"
    /\ k \in 1..Len(batchRequests)
    /\ batchRequests[k].state = "fetch"
    /\ \E answer \in BatchAnswers :
          LET after == afterAnswer("executeBatchQuery", batchRequests[k], answer,
                                   Distinct(answer.ids))
              requests == [batchRequests EXCEPT ![k] = after]
          IN IF hasSettled(after) /\ k = awaitedBatch
             THEN BatchesFrom(requests, k)
             ELSE /\ batchRequests' = requests
                  /\ UNCHANGED <<batchState, vulnerabilityIds, chunkAt, detailRequests,
                                 detailVulnerabilities>>
    /\ UNCHANGED batchCall
    /\ UNCHANGED <<aggVars, dedupVars, retryVars, unitVars, pureVars, pageVars, npmVars>>

\* The backoff sleep of the call for batch k ends.
BatchSleepResolves(k) ==
    /\ batchState = "batches"
    /\ k \in 1..Len(batchRequests)
    /\ batchRequests[k].state = "sleep"
    /\ LET after == afterSleep("executeBatchQuery", batchRequests[k])
           requests == [batchRequests EXCEPT ![k] = after]
       IN IF hasSettled(after) /\ k = awaitedBatch
          THEN BatchesFrom(requests, k)
          ELSE /\ batchRequests' = requests
               /\ UNCHANGED <<batchState, vulnerabilityIds, chunkAt, detailRequests,
                              detailVulnerabilities>>
    /\ UNCHANGED batchCall
    /\ UNCHANGED <<aggVars, dedupVars, retryVars, unitVars, pureVars, pageVars, npmVars>>

\* fetchVulnerabilityDetails goes on after a fetch of the chunk at chunkAt has
\* moved: Promise.allSettled resolves once every fetch of the chunk has settled.
ChunkFrom(requests) ==
    LET uniqueIds == Distinct(vulnerabilityIds)
        chunk == chunkOf(uniqueIds, chunkAt, batchCall.chunkSize)
        last == CHOOSE p \in chunk : \A q \in chunk : q <= p
    IN IF \A p \in chunk : hasSettled(requests[p])
       THEN LET pushed == detailVulnerabilities
                           \o chunkValues(uniqueIds, requests, chunkAt, last)
                 next == chunkAt + batchCall.chunkSize
                 started == startsChunk(uniqueIds, next, batchCall.chunkSize)
            IN /\ detailVulnerabilities' = pushed
               /\ IF next > Len(uniqueIds)
                  THEN /\ batchState' = "returned"
                       /\ detailRequests' = requests
                       /\ UNCHANGED chunkAt
                  ELSE /\ batchState' = "details"
                       /\ chunkAt' = next
                       /\ detailRequests' =
                             [p \in 1..Len(uniqueIds) |->
                                 IF requests[p].state = "waiting"
                                 THEN started[p] ELSE requests[p]]
       ELSE /\ detailRequests' = requests
            /\ UNCHANGED <<batchState, chunkAt, detailVulnerabilities>>

\* The service answers the /vulns/{id} request of the id at position p.
DetailAnswered(p) ==
    /\ batchState = "details"
    /\ p \in 1..Len(detailRequests)
    /\ detailRequests[p].state = "fetch"
    /\ \E answer \in DetailAnswers :
          ChunkFrom([detailRequests EXCEPT
                        ![p] = afterAnswer("fetchSingleVulnerability", @, answer, <<>>)])
    /\ UNCHANGED <<batchCall, batchRequests, vulnerabilityIds>>
    /\ UNCHANGED <<aggVars, dedupVars, retryVars, unitVars, pureVars, pageVars, npmVars>>

\* The backoff sleep of the fetch of the id at position p ends.
DetailSleepResolves(p) ==
    /\ batchState = "details"
    /\ p \in 1..Len(detailRequests)
    /\ detailRequests[p].state = "sleep"
    /\ ChunkFrom([detailRequests EXCEPT ![p] = afterSleep("fetchSingleVulnerability", @)])
    /\ UNCHANGED <<batchCall, batchRequests, vulnerabilityIds>>
    /\ UNCHANGED <<aggVars, dedupVars, retryVars, unitVars, pureVars, pageVars, npmVars>>

NextBatch ==
    \/ QueryWithBatch
    \/ \E k \in 1..MaxQueries : BatchAnswered(k)
    \/ \E k \in 1..MaxQueries : BatchSleepResolves(k)
    \/ \E p \in 1..Cardinality(Ids) : DetailAnswered(p)
    \/ \E p \in 1..Cardinality(Ids) : DetailSleepResolves(p)

SpecBatch == InitBatch /\ [][NextBatch]_vars

(***************************************************************************)
(* OSV client: querySinglePackage under queryIndividually                  *)
(***************************************************************************)
\* How many pages the service cuts the answer to one query into, at most.
MaxPages == 3

\* The queries of the model, as queryVulnerabilities builds them.
SingleQueries ==
    { osvQueryOf([name |-> "pkg", version |-> "1.0.0"]),
      osvQueryOf([name |-> "@scope/pkg", version |-> "2.0.0"]) }

\* What the service answers to a /query request: a failure that is retried, one
\* that is not, a body that fails the schema, or a page: vulns (absent, one
\* record, two records) and next_page_token (absent or a token).
QueryAnswers ==
    [type : {"http"}, status : {500, 404}, body : {"none"},
     vulns : {Undefined}, next_page_token : {Undefined}]
    \cup [type : {"http"}, status : {200}, body : {"malformed"},
          vulns : {Undefined}, next_page_token : {Undefined}]
    \cup [type : {"http"}, status : {200}, body : {"valid"},
          vulns : {Undefined, Some(<<recordOf("GHSA-x")>>),
                   Some(<<recordOf("CVE-1"), recordOf("CVE-2")>>)},
          next_page_token : Optional({"t1", "t2"})]

\* { ...query }
firstQuery(query) ==
    [package |-> query.package, version |-> query.version, page_token |-> Undefined]

\* The follow-up body built from currentQuery in place of query: the token of
\* the page before stays when the new page names none.
nextQuery_FromCurrent(query, current, token) ==
    [package |-> current.package, version |-> current.version,
     page_token |-> IF IsDefined(current.page_token) THEN current.page_token ELSE Some(token)]

\* currentQuery = { ...query, page_token: parsed.next_page_token }
nextQuery(query, current, token) ==
    [package |-> query.package, version |-> query.version, page_token |-> Some(token)]

\* The catch block of the loop of querySinglePackage rethrowing the error.
onPageFailed_Rethrows == "throw"

\* The catch block of the loop of querySinglePackage: warn and break.
onPageFailed == "break"

\* queryIndividually over the one settled call of querySinglePackage: the value
\* of a fulfilled call is pushed, a rejected call adds nothing.
queryIndividually(status, value) == IF status = "fulfilled" THEN value ELSE <<>>

InitPages ==
    /\ TopIdle
    /\ IgnoreIdle
    /\ SeverityIdle
    /\ ProcIdle
    /\ QueryIdle
    /\ AggIdle
    /\ DedupIdle
    /\ RetryIdle
    /\ UnitIdle
    /\ BatchIdle
    /\ NpmIdle
    /\ pageCall \in SingleQueries
    /\ pageState = "idle"
    /\ pageRequest = NotCalled
    /\ currentQuery = <<>>
    /\ allVulns = <<>>
    /\ received = {}
    /\ pagesServed = <<>>
    /\ individualResult = <<>>

\* queryIndividually calls querySinglePackage(query): the first request goes out.
SinglePackageCalled ==
    /\ pageState = "idle"
    /\ pageState' = "running"
    /\ currentQuery' = firstQuery(pageCall)
    /\ pageRequest' = FirstAttempt
    /\ received' = {[body |-> firstQuery(pageCall), after |-> 0]}
    /\ UNCHANGED <<pageCall, allVulns, pagesServed, individualResult>>
    /\ UNCHANGED <<aggVars, dedupVars, retryVars, unitVars, pureVars, batchVars, npmVars>>

\* querySinglePackage leaves its loop and returns allVulns, or rejects; the
\* allSettled of queryIndividually resolves.
PaginationSettles(status, value) ==
    /\ pageState' = IF status = "fulfilled" THEN "returned" ELSE "rejected"
    /\ individualResult' = <<queryIndividually(status, value)>>

\* The service answers the /query request in flight: withRetry sleeps or settles;
\* a page is read, pushed and followed, a failure reaches the catch block.
PageServed ==
    /\ pageState = "running"
    /\ pageRequest.state = "fetch"
    /\ \E answer \in QueryAnswers :
          LET after == afterAnswer("querySinglePackage", pageRequest, answer, <<>>)
              pushed == allVulns \o orEmptyList(answer.vulns)
          IN /\ isTruthy(answer.next_page_token) => Len(pagesServed) + 1 < MaxPages
             /\ IF after.state = "sleep"
                THEN /\ pageRequest' = after
                     /\ UNCHANGED <<pageState, currentQuery, allVulns, received, pagesServed,
                                    individualResult>>
                ELSE IF after.state = "threw"
                THEN /\ pageRequest' = after
                     /\ IF onPageFailed = "break"
                        THEN PaginationSettles("fulfilled", allVulns)
                        ELSE PaginationSettles("rejected", <<>>)
                     /\ UNCHANGED <<currentQuery, allVulns, received, pagesServed>>
                ELSE /\ allVulns' = pushed
                     /\ pagesServed' = Append(pagesServed,
                           [vulns |-> answer.vulns, next_page_token |-> answer.next_page_token])
                     /\ IF isTruthy(answer.next_page_token)
                        THEN /\ currentQuery' =
                                   nextQuery(pageCall, currentQuery, ValueOf(answer.next_page_token))
                             /\ pageRequest' = FirstAttempt
                             /\ received' = received \cup
                                   {[body |-> currentQuery', after |-> Len(pagesServed')]}
                             /\ UNCHANGED <<pageState, individualResult>>
                        ELSE /\ pageRequest' = after
                             /\ PaginationSettles("fulfilled", pushed)
                             /\ UNCHANGED <<currentQuery, received>>
    /\ UNCHANGED pageCall
    /\ UNCHANGED <<aggVars, dedupVars, retryVars, unitVars, pureVars, batchVars, npmVars>>

\* The backoff sleep of the page request ends: the same body is posted again.
PageBackoffEnds ==
    /\ pageState = "running"
    /\ pageRequest.state = "sleep"
    /\ pageRequest' = afterSleep("querySinglePackage", pageRequest)
    /\ received' = received \cup {[body |-> currentQuery, after |-> Len(pagesServed)]}
    /\ UNCHANGED <<pageCall, pageState, currentQuery, allVulns, pagesServed, individualResult>>
    /\ UNCHANGED <<aggVars, dedupVars, retryVars, unitVars, pureVars, batchVars, npmVars>>

NextPages ==
    \/ SinglePackageCalled
    \/ PageServed
    \/ PageBackoffEnds

SpecPages == InitPages /\ [][NextPages]_vars

(***************************************************************************)
(* npm source: scan, queryVulnerabilities and queryInBatches by request    *)
(***************************************************************************)
\* How many packages the npm scans of the model are called with, at most.
MaxScanned == 3

\* The package lists of the npm scans, duplicates included.
ScannedLists == SeqsUpTo(Packages, MaxScanned)

\* The advisory the registry holds for a package name, as it stands in the
\* response under that name: the name is not repeated in it.
registryAdvisory(packageName) ==
    [id |-> IF packageName = "pkg" THEN 1234 ELSE 5678,
     name |-> Undefined, module_name |-> Undefined,
     severity |-> "high", cvss |-> Undefined, vulnerable_versions |-> "<3.0.0",
     cves |-> Undefined, github_advisory_id |-> Undefined,
     url |-> <<"https://example.com">>]

\* What the registry answers to a bulk request: failures, a body that fails the
\* schema, an empty object, or one advisory under every name of the payload.
BulkAnswers ==
    [type : {"http"}, status : {500, 404}, body : {"none"}, found : {FALSE}]
    \cup [type : {"timeout"}, status : {0}, body : {"none"}, found : {FALSE}]
    \cup [type : {"http"}, status : {200}, body : {"malformed"}, found : {FALSE}]
    \cup [type : {"http"}, status : {200}, body : {"valid"}, found : BOOLEAN]

\* The flattening loop of executeBulkQuery over Object.entries(parsedResponse):
\* advisories.push({...advisory, name: advisory.name || packageName})
flattened(payload, answer) ==
    IF ~answer.found THEN <<>>
    ELSE [i \in 1..Len(payload) |->
            LET advisory == registryAdvisory(payload[i].name)
            IN [advisory EXCEPT !.name = IF isTruthy(advisory.name) THEN advisory.name
                                         ELSE Some(payload[i].name)]]

\* The npm client of the scan.
npmClient == [kind |-> "npm", useBatch |-> TRUE, batchSize |-> npmCall.batchSize]

\* The bulk bodies the call posts, in order.
bulkRequests == npmQueryVulnerabilities(npmClient, npmCall.packages).requests

\* uniquePackages.length > NPM_AUDIT_API.MAX_PACKAGES_PER_REQUEST
inBatches == Len(deduplicatePackages(npmCall.packages)) > npmCall.batchSize

\* The processor of the source: no ignore config.
npmScanEnv ==
    [config |-> compileIgnoreConfig([ignore |-> Undefined, packages |-> Undefined]),
     now |-> ProcTime]

\* queryVulnerabilities with the single bulk query in a try block of its own.
onBulkFailed_Swallowed == "continue"

\* return await executeBulkQuery(requestPayload): a rejection is the rejection
\* of queryVulnerabilities and of scan.
onBulkFailed == "throw"

\* The catch block of the loop of queryInBatches: log and continue.
onChunkFailed == "continue"

InitNpm ==
    /\ TopIdle
    /\ IgnoreIdle
    /\ SeverityIdle
    /\ ProcIdle
    /\ QueryIdle
    /\ AggIdle
    /\ DedupIdle
    /\ RetryIdle
    /\ UnitIdle
    /\ BatchIdle
    /\ PagesIdle
    /\ \E p \in ScannedLists, b \in {MAX_PACKAGES_PER_REQUEST, ChunkLimit} :
          npmCall = [packages |-> p, batchSize |-> b]
    /\ npmState = "idle"
    /\ npmRequests = <<>>
    /\ npmAdvisories = <<>>
    /\ npmResult = <<>>

\* scan goes on once client.queryVulnerabilities has resolved with advisories.
ScanResolves(advisories) ==
    /\ npmState' = "resolved"
    /\ npmResult' = <<processAdvisories(advisories, npmCall.packages, npmScanEnv, 0).advisories>>

\* scan(packages) of the npm source is called: an empty list resolves at once,
\* otherwise the first bulk request goes out.
NpmScan ==
    /\ npmState = "idle"
    /\ IF Len(npmCall.packages) = 0
       THEN /\ npmState' = "resolved"
            /\ npmResult' = << <<>> >>
            /\ UNCHANGED npmRequests
       ELSE /\ npmState' = "running"
            /\ npmRequests' = [k \in 1..Len(bulkRequests) |->
                                  IF k = 1 THEN FirstAttempt ELSE NotCalled]
            /\ UNCHANGED npmResult
    /\ UNCHANGED <<npmCall, npmAdvisories>>
    /\ UNCHANGED <<aggVars, dedupVars, retryVars, unitVars, pureVars, batchVars, pageVars>>

\* The call of executeBulkQuery for request k has settled, requests being the
\* calls with that one settled: queryVulnerabilities returns or rejects, or the
\* loop of queryInBatches goes on.
BulkFrom(requests, k) ==
    LET pushed == IF requests[k].state = "returned"
                  THEN npmAdvisories \o requests[k].ids ELSE npmAdvisories
        failure == IF inBatches THEN onChunkFailed ELSE onBulkFailed
    IN /\ npmAdvisories' = pushed
       /\ IF requests[k].state = "threw" /\ failure = "throw"
          THEN /\ npmState' = "rejected"
               /\ npmRequests' = requests
               /\ UNCHANGED npmResult
          ELSE IF k < Len(requests)
          THEN /\ npmRequests' = [requests EXCEPT ![k + 1] = FirstAttempt]
               /\ UNCHANGED <<npmState, npmResult>>
          ELSE /\ npmRequests' = requests
               /\ ScanResolves(pushed)

\* The registry answers the bulk request of chunk k.
BulkAnswered(k) ==
    /\ npmState = "running"
    /\ k \in 1..Len(npmRequests)
    /\ npmRequests[k].state = "fetch"
    /\ \E answer \in BulkAnswers :
          LET after == afterAnswer("executeBulkQuery", npmRequests[k], answer,
                                   flattened(bulkRequests[k].payload, answer))
              requests == [npmRequests EXCEPT ![k] = after]
          IN IF hasSettled(after)
             THEN BulkFrom(requests, k)
             ELSE /\ npmRequests' = requests
                  /\ UNCHANGED <<npmState, npmAdvisories, npmResult>>
    /\ UNCHANGED npmCall
    /\ UNCHANGED <<aggVars, dedupVars, retryVars, unitVars, pureVars, batchVars, pageVars>>

\* The backoff sleep of the bulk request of chunk k ends.
BulkSleepResolves(k) ==
    /\ npmState = "running"
    /\ k \in 1..Len(npmRequests)
    /\ npmRequests[k].state = "sleep"
    /\ LET after == afterSleep("executeBulkQuery", npmRequests[k])
           requests == [npmRequests EXCEPT ![k] = after]
       IN IF hasSettled(after)
          THEN BulkFrom(requests, k)
          ELSE /\ npmRequests' = requests
               /\ UNCHANGED <<npmState, npmAdvisories, npmResult>>
    /\ UNCHANGED npmCall
    /\ UNCHANGED <<aggVars, dedupVars, retryVars, unitVars, pureVars, batchVars, pageVars>>

NextNpm ==
    \/ NpmScan
    \/ \E k \in 1..MaxScanned : BulkAnswered(k)
    \/ \E k \in 1..MaxScanned : BulkSleepResolves(k)

SpecNpm == InitNpm /\ [][NextNpm]_vars

(***************************************************************************)
(* Aggregator: claims                                                      *)
(***************************************************************************)
FulfilledIdx == {i \in SourceIdx : results[i].status = "fulfilled"}

\* The dedupArg of the sources that fulfilled, in source order, written without
\* the loop of scan: the values of the fulfilled slots, concatenated.
RECURSIVE Flatten(_)
Flatten(ss) == IF ss = <<>> THEN <<>> ELSE ss[1] \o Flatten(Tail(ss))

IsFulfilled(r) == r.status = "fulfilled"

FulfilledAdvisories ==
    LET kept == SelectSeq(results, IsFulfilled)
    IN Flatten([k \in 1..Len(kept) |-> kept[k].value])

IdSet(a) == {a.id} \cup Range(a.aliases)

\* Two dedupArg denote the same vulnerability of the same package.
Overlap(a, b) == a.package = b.package /\ IdSet(a) \cap IdSet(b) # {}

\* The indexes of advs linked to those of S through chains of overlaps.
RECURSIVE Linked(_, _)
Linked(advs, S) ==
    LET more == S \cup {j \in 1..Len(advs) : \E i \in S : Overlap(advs[i], advs[j])}
    IN IF more = S THEN S ELSE Linked(advs, more)

\* C1: scan never rejects; it resolves with the de-duplicated dedupArg of exactly
\* the sources that fulfilled: a rejected source contributes nothing and removes
\* nothing, and when every source rejects the result is the empty list.
C1_ScanNeverRejects ==
    /\ scanState # "rejected"
    /\ scanState = "resolved" =>
          /\ allAdvisories = FulfilledAdvisories
          /\ output = deduplicateAdvisories(FulfilledAdvisories)
          /\ Range(output) \subseteq 1..Len(FulfilledAdvisories)
          /\ (FulfilledAdvisories # <<>> => output # <<>>)
          /\ (FulfilledIdx = {} => output = <<>>)

C1_Witness ==
    /\ scanState = "resolved"
    /\ results[1].status = "rejected"
    /\ results[2].status = "fulfilled"
    /\ Len(results[2].value) = 1
    /\ Len(output) = 1

\* C2: de-duplication never loses severity: whenever some input advisory of a
\* package is fatal, the output holds a fatal advisory of that package that stands
\* for the same vulnerability (is linked to it through shared ids or aliases).
C2_SeverityNeverLost ==
    dedupDone =>
        \A i \in 1..Len(dedupArg) :
            dedupArg[i].level = "fatal" =>
                \E j \in Range(dedupResult) :
                    /\ j \in Linked(dedupArg, {i})
                    /\ dedupArg[j].level = "fatal"

\* C3: the output holds no two distinct dedupArg of the same package whose
\* identity sets ({id} united with aliases) intersect.
C3_NoOverlapInOutput ==
    dedupDone =>
        \A i, j \in Range(dedupResult) :
            i # j => ~Overlap(dedupArg[i], dedupArg[j])

\* The input without the positions of S, as the list of the positions kept.
KeptPositions(advs, S) ==
    LET IsKept(n) == n \notin S
    IN SelectSeq([n \in 1..Len(advs) |-> n], IsKept)

\* The survivors of de-duplicating only the dedupArg outside S, as positions of
\* the whole input.
SurvivorsWithout(advs, S) ==
    LET keep == KeptPositions(advs, S)
        sub  == [n \in 1..Len(keep) |-> advs[keep[n]]]
        out  == deduplicateAdvisories(sub)
    IN [n \in 1..Len(out) |-> keep[out[n]]]

MaxLevel(a, b) == IF "fatal" \in {a.level, b.level} THEN "fatal" ELSE "warn"

\* A pair of overlapping dedupArg that arrive among dedupArg sharing no
\* identifier with either of them.
IsolatedPair(advs, i, j) ==
    /\ i # j
    /\ Overlap(advs[i], advs[j])
    /\ \A k \in 1..Len(advs) \ {i, j} :
          ~Overlap(advs[k], advs[i]) /\ ~Overlap(advs[k], advs[j])

\* C4: when two dedupArg of a package share an id or alias, in either arrival
\* order the output holds exactly one advisory for the two, at the higher of their
\* levels (fatal for warn + fatal), and the dedupArg that share no identifier
\* with them survive exactly as they do without the pair: each one that duplicates
\* no other advisory is in the output.
C4_PairCollapsesToFatal ==
    dedupDone =>
        \A i, j \in 1..Len(dedupArg) :
            IsolatedPair(dedupArg, i, j) =>
                LET IsOther(n) == n \notin {i, j}
                IN /\ Cardinality(Range(dedupResult) \cap {i, j}) = 1
                   /\ \A s \in Range(dedupResult) \cap {i, j} :
                         dedupArg[s].level = MaxLevel(dedupArg[i], dedupArg[j])
                   /\ SelectSeq(dedupResult, IsOther) = SurvivorsWithout(dedupArg, {i, j})
                   /\ \A k \in 1..Len(dedupArg) \ {i, j} :
                         (\A m \in 1..Len(dedupArg) \ {k} :
                             ~Overlap(dedupArg[k], dedupArg[m]))
                         => k \in Range(dedupResult)

\* The example of the claim: GHSA-x with alias CVE-1 at warn from the first source,
\* CVE-1 at fatal from the second, next to an unrelated CVE-2.
C4_Witness ==
    /\ dedupDone
    /\ dedupArg =
          << [id |-> "GHSA-x", aliases |-> <<"CVE-1">>, level |-> "warn", package |-> "pkg"],
             [id |-> "CVE-2", aliases |-> <<>>, level |-> "fatal", package |-> "pkg"],
             [id |-> "CVE-1", aliases |-> <<>>, level |-> "fatal", package |-> "pkg"] >>
    /\ dedupResult = <<3, 2>>

(***************************************************************************)
(* Retry executor: claims                                                  *)
(***************************************************************************)
Last(seq) == seq[Len(seq)]

\* Every finished invocation failed with an error the predicate lets retry.
AllRetryableFailures ==
    \A k \in 1..Len(outcomes) :
        ~outcomes[k].ok /\ shouldRetryOf(config, outcomes[k].error)

\* C5: withRetry invokes the operation at most maxAttempts times; when every
\* attempt fails with a retryable error it invokes it exactly maxAttempts times
\* and then rejects with the error of the last attempt.
C5_AtMostMaxAttempts ==
    /\ calls <= (IF config.maxAttempts > 0 THEN config.maxAttempts ELSE 0)
    /\ (rpc = "rejected" /\ config.maxAttempts >= 1 /\ AllRetryableFailures) =>
          /\ calls = config.maxAttempts
          /\ Len(outcomes) = config.maxAttempts
          /\ lastError = Last(outcomes).error

C5_Witness ==
    /\ rpc = "rejected"
    /\ config.maxAttempts = 3
    /\ calls = 3
    /\ AllRetryableFailures
    /\ outcomes[1].error # outcomes[3].error
    /\ lastError = outcomes[3].error

\* C6: an attempt whose error shouldRetry refuses is the last one: no further
\* invocation and no sleep follow it, and withRetry rejects with that error (so an
\* operation that always throws it is invoked exactly once for any maxAttempts).
C6_RefusedErrorStopsRetrying ==
    \A k \in 1..Len(outcomes) :
        (~outcomes[k].ok /\ ~shouldRetryOf(config, outcomes[k].error)) =>
            /\ k = Len(outcomes)
            /\ calls = k
            /\ Len(sleeps) = k - 1
            /\ rpc = "rejected"
            /\ lastError = outcomes[k].error

C6_Witness ==
    /\ config.shouldRetry = "not400"
    /\ config.maxAttempts = MaxAttemptLimit
    /\ rpc = "rejected"
    /\ calls = 1
    /\ sleeps = <<>>
    /\ includes(lastError, StatusDigits(400))

\* The delay d is exactly ms milliseconds.
DelayIs(d, ms) == d.num = ms * d.den

\* C7: the k-th sleep of a call lasts delayMs * 1.5^(k-1); there is one sleep
\* between two consecutive attempts, none before the first attempt and none after
\* the last (delayMs = 100, maxAttempts = 4, success on attempt 4: 100, 150, 225).
C7_BackoffLaw ==
    /\ \A k \in 1..Len(sleeps) :
          sleeps[k].num * Pow(2, k - 1) = config.delayMs * Pow(3, k - 1) * sleeps[k].den
    /\ rpc = "sleep" => Len(sleeps) = calls
    /\ rpc = "operation" => Len(sleeps) = calls - 1
    /\ rpc \in {"resolved", "rejected"} =>
          Len(sleeps) = (IF calls = 0 THEN 0 ELSE calls - 1)
    /\ (config.delayMs = 100 /\ config.maxAttempts = 4 /\ rpc = "resolved" /\ calls = 4) =>
          /\ Len(sleeps) = 3
          /\ DelayIs(sleeps[1], 100)
          /\ DelayIs(sleeps[2], 150)
          /\ DelayIs(sleeps[3], 225)

C7_Witness ==
    /\ config.delayMs = 100
    /\ config.maxAttempts = 4
    /\ rpc = "resolved"
    /\ calls = 4
    /\ Len(sleeps) = 3

\* C8: once an attempt succeeds withRetry has resolved with that attempt's value,
\* and the operation is not invoked again: the successful invocation is the last.
C8_SuccessEndsTheCall ==
    /\ \A k \in 1..Len(outcomes) :
          outcomes[k].ok =>
              /\ k = Len(outcomes)
              /\ calls = k
              /\ rpc = "resolved"
              /\ retValue = outcomes[k].value
    /\ rpc = "resolved" => (outcomes # <<>> /\ Last(outcomes).ok)

C8_Witness ==
    /\ rpc = "resolved"
    /\ calls = 2
    /\ config.maxAttempts = MaxAttemptLimit
    /\ retValue = "final result"

(***************************************************************************)
(* Source clients: claims                                                  *)
(***************************************************************************)
PermanentClientFault(answer) ==
    answer.type = "http" /\ answer.status \in {400, 401, 403, 404}

TransientFault(answer) ==
    \/ answer.type \in {"network", "timeout"}
    \/ answer.type = "http" /\ answer.status >= 500

Malformed(answer) ==
    answer.type = "http" /\ isOk(answer.status) /\ answer.body = "malformed"

\* The k-th request of the unit was the last one sent and withRetry has rejected.
SurfacedAt(k) ==
    /\ k = Len(answers)
    /\ calls = k
    /\ Len(sleeps) = k - 1
    /\ rpc = "rejected"

\* C9: on every outbound request of either source an HTTP 400, 401, 403 or 404 is
\* not retried (no request follows it and the failure surfaces at once), and every
\* other failure (5xx, network error, timeout) is retried up to the attempt limit.
C9_ClientFaultNotRetried ==
    \A k \in 1..Len(answers) :
        /\ PermanentClientFault(answers[k]) => SurfacedAt(k)
        /\ (TransientFault(answers[k]) /\ k < config.maxAttempts) =>
              (rpc = "sleep" /\ Len(sleeps) = k) \/ calls > k
        /\ calls <= config.maxAttempts

\* C10: a response whose body is malformed or fails validation is a permanent
\* fault of its unit: the request is not issued again and the unit is skipped (it
\* throws to the caller that skips it, or returns null).
C10_MalformedNotRetried ==
    \A k \in 1..Len(answers) :
        Malformed(answers[k]) =>
            /\ k = Len(answers)
            /\ calls = k
            /\ rpc \in {"resolved", "rejected"}
            /\ Len(sleeps) = k - 1
            /\ unitState \in {"running", "threw", "returnedNull"}

(***************************************************************************)
(* Ignore policy: claims                                                   *)
(***************************************************************************)
\* The ids an advisory is known under in a call: its id and its aliases.
CheckSet(call) == {call.vulnId} \cup Range(orEmptyList(call.vulnAliases))

GlobalSet(call) == Range(orEmptyList(call.config.ignore))

\* The rule the config has for the package of the call, if any.
HasRule(call) ==
    /\ isTruthy(call.packageName)
    /\ IsDefined(call.config.packages)
    /\ ValueOf(call.packageName) \in DOMAIN ValueOf(call.config.packages)

RuleOf(call) == ValueOf(call.config.packages)[ValueOf(call.packageName)]

ListedSet(call) == Range(orEmptyList(RuleOf(call).vulnerabilities))

\* The until of the rule is a date, and it lies strictly before the call.
UntilBefore(call) ==
    /\ isTruthy(RuleOf(call).until)
    /\ dateOf(ValueOf(RuleOf(call).until)).valid
    /\ dateOf(ValueOf(RuleOf(call).until)).time < call.now.time

\* The until of the rule is a date, and it lies at or after the call.
UntilAtOrAfter(call) ==
    /\ isTruthy(RuleOf(call).until)
    /\ dateOf(ValueOf(RuleOf(call).until)).valid
    /\ dateOf(ValueOf(RuleOf(call).until)).time >= call.now.time

\* C12: an advisory is ignored, whatever the package (also with no package name),
\* when its id or one of its aliases is in the global ignore list; so a global
\* list holding only a CVE alias suppresses an advisory with another primary id.
C12_GlobalIgnoreCoversAliases ==
    ignoreVerdict # <<>> =>
        (CheckSet(ignoreCall) \cap GlobalSet(ignoreCall) # {} => ignoreVerdict[1].ignored)

C12_Witness ==
    /\ ignoreVerdict # <<>>
    /\ ignoreVerdict[1].ignored
    /\ ignoreCall.vulnId = "GHSA-x"
    /\ ignoreCall.vulnAliases = Some(<<"CVE-1">>)
    /\ ignoreCall.config.ignore = Some(<<"CVE-1">>)
    /\ ignoreCall.packageName = Some("other")
    /\ ~HasRule(ignoreCall)

\* C13: a per-package rule whose until date is strictly before the evaluation
\* time is treated as absent (the verdict is the global one alone: a listed id is
\* not suppressed, a globally ignored id still is), and a rule whose until date is
\* at or after the evaluation time suppresses the ids it lists.
C13_ExpiredRuleIsAbsent ==
    (ignoreVerdict # <<>> /\ HasRule(ignoreCall)) =>
        /\ UntilBefore(ignoreCall) =>
              (ignoreVerdict[1].ignored <=>
                  CheckSet(ignoreCall) \cap GlobalSet(ignoreCall) # {})
        /\ (UntilAtOrAfter(ignoreCall)
            /\ CheckSet(ignoreCall) \cap ListedSet(ignoreCall) # {}) =>
              ignoreVerdict[1].ignored

\* An expired rule that lists the id of the call, and no global entry.
C13_Witness ==
    /\ ignoreVerdict # <<>>
    /\ HasRule(ignoreCall)
    /\ UntilBefore(ignoreCall)
    /\ ignoreCall.vulnId \in ListedSet(ignoreCall)
    /\ GlobalSet(ignoreCall) = {}
    /\ ~ignoreVerdict[1].ignored

(***************************************************************************)
(* Severity classifier: claims                                             *)
(***************************************************************************)
\* The textual severity of the record is CRITICAL or HIGH.
TextIsFatal(vuln) ==
    /\ IsDefined(vuln.database_specific)
    /\ IsDefined(ValueOf(vuln.database_specific).severity)
    /\ ValueOf(ValueOf(vuln.database_specific).severity) \in {"CRITICAL", "HIGH", "high"}

\* The CVSS scores present in the record, in tenths.
CvssScores(vuln) ==
    LET entries == orEmptyList(vuln.severity)
    IN {parseScore(entries[i].score) :
            i \in {k \in 1..Len(entries) :
                      isCvssType(entries[k].type) /\ parseScore(entries[k].score) >= 0}}

\* C16: the classifier returns fatal exactly when the textual severity is
\* CRITICAL or HIGH or the highest CVSS score present is at least 7.0, and warn
\* otherwise (no severity data, only non-CVSS data); a non-fatal textual severity
\* does not suppress a fatal CVSS score.
C16_FatalIffTextOrCvss ==
    severityLevel # <<>> =>
        /\ severityLevel[1] \in {"fatal", "warn"}
        /\ severityLevel[1] = "fatal" <=>
              \/ TextIsFatal(severityArg)
              \/ \E s \in CvssScores(severityArg) : s >= 70

\* Textual LOW next to the scores 5.0 and 7.0: fatal, on the boundary.
C16_Witness ==
    /\ severityLevel = <<"fatal">>
    /\ severityArg.database_specific = Some([severity |-> Some("LOW")])
    /\ IsDefined(severityArg.severity)
    /\ CvssScores(severityArg) = {50, 70}

(***************************************************************************)
(* Source processors: claims                                               *)
(***************************************************************************)
\* The run of the given kind has returned.
ProcRan(kind) == procOutput # <<>> /\ procInput.kind = kind

\* The records handed to the processor of the run, and what identifies them.
RecordsOf(input) ==
    IF input.kind = "npm" THEN Range(input.advisories) ELSE Range(input.vulnerabilities)

RecordId(kind, r) == IF kind = "npm" THEN numberToString(r.id) ELSE r.id

\* The ids under which the processor presents a record to the ignore policy.
RecordIds(kind, r) ==
    IF kind = "npm" THEN {numberToString(r.id)} \cup Range(buildAliases(r))
    ELSE {r.id} \cup Range(orEmptyList(r.aliases))

\* The record matches the installed package: the name is the record's and the
\* version is affected.
Matches(kind, r, p) ==
    IF kind = "npm"
    THEN /\ isTruthy(advisoryPackageName(r))
         /\ ValueOf(advisoryPackageName(r)) = p.name
         /\ semverSatisfies(p.version, r.vulnerable_versions) = "true"
    ELSE \E entry \in Range(orEmptyList(r.affected)) :
            entry.package.name = p.name /\ p.version \in Range(entry.versions)

\* The ignore config of the run suppresses these ids for this package name.
PolicyIgnores(cfg, ids, name) ==
    \/ ids \cap Range(orEmptyList(cfg.ignore)) # {}
    \/ /\ IsDefined(cfg.packages)
       /\ name \in DOMAIN ValueOf(cfg.packages)
       /\ ~isExpired(ValueOf(cfg.packages)[name].until, ProcTime)
       /\ ids \cap Range(orEmptyList(ValueOf(cfg.packages)[name].vulnerabilities)) # {}

\* The matched (record, name@version) pairs of the run that the policy suppresses.
SuppressedPairs(input) ==
    {rp \in RecordsOf(input) \X Range(input.packages) :
        /\ Matches(input.kind, rp[1], rp[2])
        /\ PolicyIgnores(input.config, RecordIds(input.kind, rp[1]), rp[2].name)}

\* C14: the ignore check comes before an advisory is created: the output of a
\* processor holds no advisory whose id, aliases and package the policy ignores,
\* and the ignored count of the call is the number of suppressed matched
\* (record, name@version) pairs, each counted once.
C14_IgnoredCountedNeverEmitted ==
    (ProcRan("osv") \/ ProcRan("npm")) =>
        /\ \A n \in 1..Len(procOutput[1]) :
              ~PolicyIgnores(procInput.config, IdSet(procOutput[1][n]), procOutput[1][n].package)
        /\ ignoredCount = Cardinality(SuppressedPairs(procInput))

\* Two records and both versions of "pkg": one record suppressed for both
\* versions, the other one emitted.
C14_Witness ==
    /\ ProcRan("npm")
    /\ ignoredCount = 2
    /\ Len(procOutput[1]) >= 1
    /\ Len(procInput.packages) = 2

\* C15: the output of one source holds one advisory per matched (vulnerability
\* id, package name) pair, not one per installed version of the package.
C15_OneAdvisoryPerVulnAndName ==
    (ProcRan("osv") \/ ProcRan("npm")) =>
        \A m, n \in 1..Len(procOutput[1]) :
            (procOutput[1][m].id = procOutput[1][n].id
             /\ procOutput[1][m].package = procOutput[1][n].package) => m = n

\* C17: an npm advisory whose CVSS score is at least 7.0 is emitted at level
\* fatal, also when its textual severity is moderate, low or info.
C17_NpmCvssScoreIsFatal ==
    ProcRan("npm") =>
        \A n \in 1..Len(procOutput[1]) :
            \A r \in RecordsOf(procInput) :
                (numberToString(r.id) = procOutput[1][n].id
                 /\ IsDefined(r.cvss) /\ ValueOf(r.cvss).score >= 70)
                => procOutput[1][n].level = "fatal"

\* An OSV record and an npm record of the scan that share a CVE and nothing else,
\* both matching the installed package of that name and neither one ignored.
SharedCveOnly(input, v, a, name) ==
    /\ v \in Range(input.vulnerabilities)
    /\ a \in Range(input.advisories)
    /\ v.id = "GHSA-x"
    /\ \E c \in Range(orEmptyList(v.aliases)) \cap Range(orEmptyList(a.cves)) : c = "CVE-1"
    /\ ~IsDefined(a.github_advisory_id)
    /\ ~IsDefined(extractGhsaFromUrl(a.url))
    /\ \E p \in Range(input.packages) : p.name = name /\ Matches("osv", v, p)
    /\ \E p \in Range(input.packages) : p.name = name /\ Matches("npm", a, p)
    /\ ~PolicyIgnores(input.config, RecordIds("osv", v), name)
    /\ ~PolicyIgnores(input.config, RecordIds("npm", a), name)

\* C18: in mode "both", when OSV reports a vulnerability of a package under a
\* GHSA id and npm under a numeric id, and the two records share only a CVE (in
\* the aliases of the one and the cves of the other), the final output holds a
\* single advisory for that vulnerability.
C18_SharedCveGivesOneAdvisory ==
    ProcRan("both") =>
        \A v \in Range(procInput.vulnerabilities), a \in Range(procInput.advisories) :
            \A name \in {"pkg", "other"} :
                SharedCveOnly(procInput, v, a, name) =>
                    Cardinality({n \in 1..Len(procOutput[1]) :
                                    /\ procOutput[1][n].package = name
                                    /\ procOutput[1][n].id \in {v.id, numberToString(a.id)}}) = 1

\* The GHSA ids of an npm advisory, written as the advisory writes them.
WrittenGhsaIds(r) ==
    (IF isTruthy(r.github_advisory_id) THEN {ValueOf(r.github_advisory_id)} ELSE {})
    \cup {r.url[i] : i \in {k \in 1..Len(r.url) : isGhsaShaped(r.url[k])}}

\* C19: an ignore rule that lists a GHSA id written as it stands in the
\* github_advisory_id or in the url of an npm advisory (lower-case suffix)
\* suppresses that advisory.
C19_GhsaRuleAsWrittenSuppresses ==
    ProcRan("npm") =>
        \A n \in 1..Len(procOutput[1]) :
            \A r \in RecordsOf(procInput) :
                numberToString(r.id) = procOutput[1][n].id =>
                    ~PolicyIgnores(procInput.config, WrittenGhsaIds(r), procOutput[1][n].package)

\* How often the pair name@version stands in one request body.
EntriesIn(request, pkg) ==
    IF request.url = "/advisories/bulk"
    THEN Cardinality({e \in (1..Len(request.payload)) \X (1..MaxInput) :
                         /\ request.payload[e[1]].name = pkg.name
                         /\ e[2] <= Len(request.payload[e[1]].versions)
                         /\ request.payload[e[1]].versions[e[2]] = pkg.version})
    ELSE Cardinality({q \in 1..Len(request.queries) :
                         /\ request.queries[q].package.name = pkg.name
                         /\ request.queries[q].version = pkg.version})

RECURSIVE EntriesFrom(_, _, _)
EntriesFrom(requests, k, pkg) ==
    IF k > Len(requests) THEN 0
    ELSE EntriesIn(requests[k], pkg) + EntriesFrom(requests, k + 1, pkg)

QueryRan == queryOutput # <<>>

\* C20: each distinct name@version pair of the input package list stands exactly
\* once in the requests a client sends for it (OSV batch and single-package
\* queries, npm bulk payloads), however often it occurs in the input.
C20_EachPairQueriedOnce ==
    QueryRan =>
        \A pkg \in Range(queryInput.packages) :
            EntriesFrom(queryOutput[1].requests, 1, pkg) = 1

\* Away from the names an object literal inherits, the pairs are queried once.
QueriedOnceForOwnNames ==
    (QueryRan /\ \A pkg \in Range(queryInput.packages) : pkg.name # "constructor") =>
        \A pkg \in Range(queryInput.packages) :
            EntriesFrom(queryOutput[1].requests, 1, pkg) = 1

\* A repeated pair in a list that is chunked into several requests.
QueriedOnceWitness ==
    /\ QueryRan
    /\ Len(queryOutput[1].requests) >= 2
    /\ \E i, j \in 1..Len(queryInput.packages) :
          i # j /\ queryInput.packages[i] = queryInput.packages[j]
    /\ \A pkg \in Range(queryInput.packages) : pkg.name # "constructor"

\* C11: every call of the aggregator's scan eventually resolves with a list of
\* advisories, whatever the remote services answer: errors, timeouts, malformed
\* bodies, pages.
C11_ScanEventuallyResolves == (scanState = "awaiting") ~> (scanState = "resolved")

(***************************************************************************)
(* Aggregator: claims about packages, chains and arrival order             *)
(***************************************************************************)
PackagesOf(advs) == {advs[n].package : n \in 1..Len(advs)}

PositionsOf(advs, p) == {n \in 1..Len(advs) : advs[n].package = p}

\* C29: advisories of different packages are never merged, whatever ids and
\* aliases they share: the survivors of a package are those of de-duplicating the
\* advisories of that package alone, and no survivor stands for an advisory of
\* another package.
C29_PackagesNeverMerged ==
    dedupDone =>
        \A p \in PackagesOf(dedupArg) :
            LET OfPackage(n) == dedupArg[n].package = p
                others == (1..Len(dedupArg)) \ PositionsOf(dedupArg, p)
            IN /\ SelectSeq(dedupResult, OfPackage) = SurvivorsWithout(dedupArg, others)
               /\ Range(dedupResult) \cap PositionsOf(dedupArg, p) # {}

\* CVE-1 with alias GHSA-x reported for "pkg" and for "other": both are returned.
C29_Witness ==
    /\ dedupDone
    /\ dedupArg =
          << [id |-> "CVE-1", aliases |-> <<"GHSA-x">>, level |-> "warn", package |-> "pkg"],
             [id |-> "CVE-1", aliases |-> <<"GHSA-x">>, level |-> "fatal", package |-> "other"] >>
    /\ dedupResult = <<1, 2>>

\* C26: chains of shared identifiers are absorbed in every arrival order: the
\* advisories of a package linked to one another through shared ids or aliases
\* (directly or through other advisories) leave exactly one advisory in the output.
C26_ChainsAbsorbed ==
    dedupDone =>
        \A i \in 1..Len(dedupArg) :
            Cardinality(Range(dedupResult) \cap Linked(dedupArg, {i})) = 1

\* The orders in which the advisories of advs can arrive.
ArrivalOrders(n) == {q \in [1..n -> 1..n] : \A i, j \in 1..n : i # j => q[i] # q[j]}

\* For a list and its survivors (positions of the list): how many survivors each
\* package has at each level.
SurvivorLevels(advs, out) ==
    [p \in PackagesOf(advs), l \in Levels |->
        Cardinality({n \in Range(out) : advs[n].package = p /\ advs[n].level = l})]

\* C27: the outcome does not depend on arrival order: every permutation of the
\* input leaves the same number of survivors per package, at the same levels.
C27_OrderIndependent ==
    dedupDone =>
        \A q \in ArrivalOrders(Len(dedupArg)) :
            LET permuted == [n \in 1..Len(dedupArg) |-> dedupArg[q[n]]]
            IN SurvivorLevels(permuted, deduplicateAdvisories(permuted))
                  = SurvivorLevels(dedupArg, dedupResult)

(***************************************************************************)
(* npm processor: the version matcher                                      *)
(***************************************************************************)
\* The run of the npm processor on the records whose range can be read and the
\* packages whose version can be read.
ParsableRun ==
    LET GoodRange(r) == \E v \in {"1.0.0", "2.0.0"} :
                            semverSatisfies(v, r.vulnerable_versions) # "throws"
        GoodVersion(p) == semverSatisfies(p.version, "<3.0.0") # "throws"
    IN processAdvisories(SelectSeq(procInput.advisories, GoodRange),
                         SelectSeq(procInput.packages, GoodVersion), procEnv, 0)

\* C25: the version matcher never throws: for a range or a version that cannot be
\* read it answers "not affected", so the run returns, no advisory is created for
\* such a pair, and the other records and packages give the advisories they give
\* without the unreadable ones.
C25_MatcherNeverThrows ==
    ProcRan("npm") =>
        /\ Len(procOutput) = 1
        /\ \A n \in 1..Len(procOutput[1]) :
              \E r \in Range(procInput.advisories), p \in Range(procInput.packages) :
                  /\ numberToString(r.id) = procOutput[1][n].id
                  /\ p.name = procOutput[1][n].package
                  /\ semverSatisfies(p.version, r.vulnerable_versions) = "true"
        /\ (Len(procInput.advisories) > 0 /\ Len(procInput.packages) > 0) =>
              procOutput[1] = ParsableRun.advisories

\* A record with an unreadable range before a record that affects the package,
\* which is installed at an unreadable version and at 1.0.0: one advisory.
C25_Witness ==
    /\ ProcRan("npm")
    /\ Len(procInput.advisories) = 2
    /\ procInput.advisories[1].vulnerable_versions = "not a range"
    /\ procInput.advisories[2].vulnerable_versions = "<3.0.0"
    /\ procInput.packages = <<UnparsablePackage, [name |-> "pkg", version |-> "1.0.0"]>>
    /\ advisoryPackageName(procInput.advisories[1]) = Some("pkg")
    /\ procInput.config = [ignore |-> Undefined, packages |-> Undefined]
    /\ Len(procOutput[1]) = 1
    /\ procOutput[1][1].id = numberToString(procInput.advisories[2].id)

(***************************************************************************)
(* Aggregator: claims about scan                                           *)
(***************************************************************************)
\* C28: duplicates of equal level keep the advisory seen first: the sources of
\* mode "both" are [osv, npm] and are merged in that order, so a vulnerability
\* both report at the same level is returned as the object of the OSV source.
C28_TiesKeepOsv ==
    /\ SourceNames = <<"osv", "npm">>
    /\ (/\ scanState = "resolved"
        /\ \A i \in SourceIdx : results[i].status = "fulfilled" /\ Len(results[i].value) = 1
        /\ Overlap(results[1].value[1], results[2].value[1])
        /\ results[1].value[1].level = results[2].value[1].level)
       => /\ output = <<1>>
          /\ allAdvisories[1] = results[1].value[1]

\* GHSA-x with alias CVE-1 from OSV and CVE-1 from npm, both warn, npm settling
\* first: the advisory returned is the one of OSV.
C28_Witness ==
    /\ scanState = "resolved"
    /\ settleOrder = <<2, 1>>
    /\ results[1] = [status |-> "fulfilled",
                     value |-> << [id |-> "GHSA-x", aliases |-> <<"CVE-1">>,
                                   level |-> "warn", package |-> "pkg"] >>]
    /\ results[2] = [status |-> "fulfilled",
                     value |-> << [id |-> "CVE-1", aliases |-> <<>>,
                                   level |-> "warn", package |-> "pkg"] >>]
    /\ output = <<1>>

\* C30: scan calls every source's scan exactly once, each with the package list
\* it was given, resolves only after every source has settled, and what it
\* returns is fixed by what the sources returned, merged in the order of the
\* sources array, whatever the order in which they settled.
C30_OnceEachAnyOrder ==
    /\ scanState = "idle" => \A i \in SourceIdx : scanCalls[i] = <<>>
    /\ scanState # "idle" => \A i \in SourceIdx : scanCalls[i] = <<scanArg>>
    /\ scanState = "resolved" =>
          /\ \A i \in SourceIdx : results[i].status \in {"fulfilled", "rejected"}
          /\ Range(settleOrder) = SourceIdx
          /\ Len(settleOrder) = Len(SourceNames)
          /\ allAdvisories = FulfilledAdvisories
          /\ output = deduplicateAdvisories(FulfilledAdvisories)

\* The second source settled first, each returned one advisory of its own: the
\* result lists the first source's advisory first.
C30_Witness ==
    /\ scanState = "resolved"
    /\ settleOrder = <<2, 1>>
    /\ \A i \in SourceIdx : results[i].status = "fulfilled" /\ Len(results[i].value) = 1
    /\ ~Overlap(results[1].value[1], results[2].value[1])
    /\ allAdvisories = <<results[1].value[1], results[2].value[1]>>
    /\ output = <<1, 2>>

\* C21: scan of no packages resolves with the empty list and sends no request:
\* each source's scan resolves with the empty list before its client sends
\* anything, and so does the aggregator's.
C21_EmptyScanIsEmpty ==
    scanArg = <<>> =>
        /\ scanState # "rejected"
        /\ \A i \in SourceIdx :
              /\ ~requested[i]
              /\ results[i].status \in {"none", "pending", "fulfilled"}
              /\ results[i].value = <<>>
        /\ scanState = "resolved" => output = <<>> /\ allAdvisories = <<>>

C21_Witness ==
    /\ scanArg = <<>>
    /\ scanState = "resolved"
    /\ \A i \in SourceIdx : results[i].status = "fulfilled" /\ scanCalls[i] = << <<>> >>
    /\ output = <<>>


(***************************************************************************)
(* The scanner: claims                                                     *)
(***************************************************************************)
TopRan(kind) == topResult # <<>> /\ topCall.kind = kind

\* C22: createMultiSourceScanner called with no sources throws at the call: it
\* returns no scanner, and no source's scan has been called and no request sent;
\* with one source or more it returns the scanner of those sources.
C22_NoSourcesThrows ==
    TopRan("construct") =>
        /\ topCall.sources = <<>> =>
              /\ topResult[1].status = "threw"
              /\ topResult[1].sources = <<>>
              /\ scanState = "idle"
              /\ \A i \in SourceIdx : scanCalls[i] = <<>> /\ ~requested[i]
        /\ topCall.sources # <<>> =>
              /\ topResult[1].status = "returned"
              /\ topResult[1].sources = topCall.sources

C22_Witness ==
    /\ TopRan("construct")
    /\ topCall.sources = <<>>
    /\ topResult[1].status = "threw"

\* C23: scanner.scan never rejects: whatever the config files hold, and when an
\* error is raised while loading the configuration, creating the sources or
\* scanning, it resolves, and with the empty list when an error was raised.
C23_TopScanNeverRejects ==
    TopRan("scan") =>
        /\ topResult[1].status = "resolved"
        /\ topCall.fault # "none" => topResult[1].value = <<>>

\* The aggregator's scan fails although advisories were on their way; Bun is
\* given the empty list.
C23_Witness ==
    /\ TopRan("scan")
    /\ topCall.fault = "scan"
    /\ Len(topCall.aggregated) = 2
    /\ topResult[1] = [status |-> "resolved", value |-> <<>>, sources |-> <<>>]

\* The config file that decides: the first of the two that exists and whose
\* bunReportWarnings, when written, is a JSON boolean.
Loads(file) ==
    /\ IsDefined(file)
    /\ IsDefined(ValueOf(file).bunReportWarnings) =>
          ValueOf(ValueOf(file).bunReportWarnings) \in {"true", "false"}

\* What the configuration says of bunReportWarnings: "false", "true", or "unset"
\* when no file loads or the file that loads does not write it.
BunReportWarningsSetting ==
    LET loading == SelectSeq(topCall.files, Loads)
    IN IF loading = <<>> THEN "unset"
       ELSE IF ~IsDefined(ValueOf(loading[1]).bunReportWarnings) THEN "unset"
       ELSE ValueOf(ValueOf(loading[1]).bunReportWarnings)

FatalOnly(advisories) ==
    LET Fatal(a) == a.level = "fatal"
    IN SelectSeq(advisories, Fatal)

\* C24: when scan meets no error, with bunReportWarnings false Bun is given
\* exactly the fatal advisories of the aggregated result, in their order (every
\* fatal one, no warn one); with bunReportWarnings true or unset it is given the
\* whole aggregated result.
C24_WarningsFilter ==
    (TopRan("scan") /\ topCall.fault = "none") =>
        /\ topResult[1].status = "resolved"
        /\ BunReportWarningsSetting = "false" =>
              /\ topResult[1].value = FatalOnly(topCall.aggregated)
              /\ \A n \in 1..Len(topResult[1].value) : topResult[1].value[n].level = "fatal"
        /\ BunReportWarningsSetting \in {"true", "unset"} =>
              topResult[1].value = topCall.aggregated

\* The first config file sets bunReportWarnings to false; of a warn and a fatal
\* advisory the fatal one alone is returned.
C24_Witness ==
    /\ TopRan("scan")
    /\ topCall.fault = "none"
    /\ topCall.files[1] = Some([source |-> Some("both"), bunReportWarnings |-> Some("false")])
    /\ topCall.aggregated =
          << [id |-> "GHSA-x", aliases |-> <<>>, level |-> "warn", package |-> "pkg"],
             [id |-> "CVE-1", aliases |-> <<>>, level |-> "fatal", package |-> "pkg"] >>
    /\ topResult[1].value =
          << [id |-> "CVE-1", aliases |-> <<>>, level |-> "fatal", package |-> "pkg"] >>
    /\ topResult[1].sources = <<"osv", "npm">>

(***************************************************************************)
(* Retry executor: no attempts allowed                                     *)
(***************************************************************************)
\* C39: with maxAttempts <= 0 withRetry never invokes the operation, asks for no
\* sleep, and rejects with the error of message 'Unknown error'.
C39_NoAttemptsRejectsUnknown ==
    config.maxAttempts <= 0 =>
        /\ calls = 0
        /\ outcomes = <<>>
        /\ sleeps = <<>>
        /\ rpc \in {"none", "idle", "rejected"}
        /\ rpc = "rejected" => lastError = <<"Unknown error">>

C39_Witness ==
    /\ config.maxAttempts = 0
    /\ rpc = "rejected"
    /\ calls = 0
    /\ lastError = <<"Unknown error">>

(***************************************************************************)
(* Ignore policy: an until that is no date                                 *)
(***************************************************************************)
\* The until of the rule is written and new Date makes an Invalid Date of it.
UntilUnparsable(call) ==
    /\ isTruthy(RuleOf(call).until)
    /\ ~dateOf(ValueOf(RuleOf(call).until)).valid

\* C40: a per-package rule whose until cannot be parsed as a date never expires:
\* at every evaluation time it suppresses the ids it lists, with the reason of the
\* rule when the global list does not answer first.
C40_UnparsableUntilNeverExpires ==
    (/\ ignoreVerdict # <<>>
     /\ HasRule(ignoreCall)
     /\ UntilUnparsable(ignoreCall)
     /\ CheckSet(ignoreCall) \cap ListedSet(ignoreCall) # {})
    => /\ ignoreVerdict[1].ignored
       /\ (CheckSet(ignoreCall) \cap GlobalSet(ignoreCall) = {}
            /\ isTruthy(RuleOf(ignoreCall).reason)) =>
              ignoreVerdict[1].reason
                 = Some(<<"package rule: ", ValueOf(RuleOf(ignoreCall).reason)>>)

\* The rule of "pkg" lists CVE-1 until "next release"; the call is made the day
\* after the date of the model.
C40_Witness ==
    /\ ignoreVerdict # <<>>
    /\ HasRule(ignoreCall)
    /\ RuleOf(ignoreCall).until = Some("next release")
    /\ ignoreCall.vulnId = "CVE-1"
    /\ ListedSet(ignoreCall) = {"CVE-1"}
    /\ GlobalSet(ignoreCall) = {}
    /\ ignoreCall.now.time = 20090
    /\ ignoreVerdict[1].ignored

(***************************************************************************)
(* Source processors: one advisory per pair, no pair dropped               *)
(***************************************************************************)
\* The installed versions of the package name that records of the given id affect.
AffectedVersions(input, id, name) ==
    {p.version : p \in {q \in Range(input.packages) :
                            /\ q.name = name
                            /\ \E r \in RecordsOf(input) :
                                  RecordId(input.kind, r) = id /\ Matches(input.kind, r, q)}}

\* The advisories of the output with the given id and package name.
AdvisoriesFor(out, id, name) == {n \in 1..Len(out) : out[n].id = id /\ out[n].package = name}

\* C36: the output of a processor holds at most one advisory per (vulnerability
\* id, package name@version) pair, also when the package list or the record list
\* holds an element twice: for every id and package name there are no more
\* advisories than installed versions of that name the id affects.
C36_AtMostOnePerPair ==
    (ProcRan("osv") \/ ProcRan("npm")) =>
        \A n \in 1..Len(procOutput[1]) :
            LET id   == procOutput[1][n].id
                name == procOutput[1][n].package
            IN Cardinality(AdvisoriesFor(procOutput[1], id, name))
                  <= Cardinality(AffectedVersions(procInput, id, name))

\* The same record twice and the same package twice give one advisory.
C36_Witness ==
    /\ ProcRan("npm")
    /\ Len(procInput.advisories) = 2
    /\ procInput.advisories[1] = procInput.advisories[2]
    /\ procInput.packages = << [name |-> "pkg", version |-> "1.0.0"],
                               [name |-> "pkg", version |-> "1.0.0"] >>
    /\ Len(procOutput[1]) = 1

\* C37: no affected package is dropped without a trace: for every record and
\* package name of which some installed version is affected, and which the ignore
\* policy does not suppress, the output holds an advisory with the id of the record
\* and that package name.
C37_NoAffectedPackageDropped ==
    (ProcRan("osv") \/ ProcRan("npm")) =>
        \A r \in RecordsOf(procInput), p \in Range(procInput.packages) :
            (/\ Matches(procInput.kind, r, p)
             /\ ~PolicyIgnores(procInput.config, RecordIds(procInput.kind, r), p.name))
            => AdvisoriesFor(procOutput[1], RecordId(procInput.kind, r), p.name) # {}

\* An OSV record that affects both installed versions of "pkg": the loop over the
\* versions stops at the first advisory, which stands for the package name.
C37_Witness ==
    /\ ProcRan("osv")
    /\ Len(procInput.vulnerabilities) = 1
    /\ procInput.vulnerabilities[1].affected
          = Some(<< [package |-> [name |-> "pkg"], versions |-> <<"1.0.0", "2.0.0">>] >>)
    /\ procInput.packages = << [name |-> "pkg", version |-> "1.0.0"],
                               [name |-> "pkg", version |-> "2.0.0"] >>
    /\ procInput.config = [ignore |-> Undefined, packages |-> Undefined]
    /\ Len(procOutput[1]) = 1

(***************************************************************************)
(* OSV client: claims about the batch path                                 *)
(***************************************************************************)
\* The calls that have been made and have not settled: a request on the wire
\* or a backoff sleep before the next one.
Unsettled(requests) ==
    {k \in 1..Len(requests) : requests[k].state \in {"fetch", "sleep"}}

\* C31: on the batch path at most one batch request is outstanding at any time,
\* and the request of batch k+1 goes out only after the call for batch k has
\* settled, with its value or with the failure its retries ended in.
C31_OneBatchAtATime ==
    /\ Cardinality(Unsettled(batchRequests)) <= 1
    /\ \A k \in 2..Len(batchRequests) :
          batchRequests[k].state # "waiting" => hasSettled(batchRequests[k - 1])

\* The first of two batches has failed for good and the second is at its second
\* attempt.
C31_Witness ==
    /\ Len(batchRequests) = 2
    /\ batchRequests[1].state = "threw"
    /\ batchRequests[2] = [state |-> "fetch", attempt |-> 2, ids |-> <<>>]

\* The chunk of the loop of fetchVulnerabilityDetails the id at position p is in.
chunkIndex(p) == (p - 1) \div batchCall.chunkSize

\* C32: at most MAX_CONCURRENT_DETAILS (10) detail fetches are under way at any
\* time, and a fetch of one chunk is started only after every fetch of the
\* chunks before it, retries included, has settled.
C32_DetailChunksInTurn ==
    /\ MAX_CONCURRENT_DETAILS = 10
    /\ batchCall.chunkSize \in {MAX_CONCURRENT_DETAILS, ChunkLimit}
    /\ Cardinality(Unsettled(detailRequests)) <= batchCall.chunkSize
    /\ \A p, q \in 1..Len(detailRequests) :
          (detailRequests[p].state # "waiting" /\ chunkIndex(q) < chunkIndex(p))
             => hasSettled(detailRequests[q])

\* Three ids in chunks of two: the fetches of the first chunk have settled, one
\* of them with null, and the fetch of the third id is at its second attempt.
C32_Witness ==
    /\ batchCall.chunkSize = ChunkLimit
    /\ Len(detailRequests) = ChunkLimit + 1
    /\ \E p \in 1..ChunkLimit : detailRequests[p].state = "returnedNull"
    /\ \E p \in 1..ChunkLimit : detailRequests[p].state = "returned"
    /\ detailRequests[ChunkLimit + 1] = [state |-> "fetch", attempt |-> 2, ids |-> <<>>]

\* The ids some batch that succeeded returned and whose detail fetch succeeded.
FetchedIds ==
    {id \in Ids :
        /\ \E k \in 1..Len(batchRequests) :
              batchRequests[k].state = "returned" /\ id \in Range(batchRequests[k].ids)
        /\ \E p \in 1..Len(detailRequests) :
              Distinct(vulnerabilityIds)[p] = id /\ detailRequests[p].state = "returned"}

\* C33: failures on the batch path are contained: the call never rejects, and
\* what it returns holds the record of every id that a successful batch
\* returned and whose detail fetch succeeded, whatever else failed.
C33_BatchFailuresContained ==
    /\ batchState # "rejected"
    /\ batchState = "returned" =>
          \A id \in FetchedIds : recordOf(id) \in Range(detailVulnerabilities)

\* The call has returned one record although a batch and a detail fetch failed.
C33_Witness ==
    /\ batchState = "returned"
    /\ \E k \in 1..Len(batchRequests) : batchRequests[k].state = "threw"
    /\ \E p \in 1..Len(detailRequests) : detailRequests[p].state = "returnedNull"
    /\ Len(detailVulnerabilities) = 1

(***************************************************************************)
(* OSV client: claims about pagination                                     *)
(***************************************************************************)
\* The vulnerabilities of the pages, one page after the other.
RECURSIVE vulnsOfPages(_)
vulnsOfPages(pages) ==
    IF pages = <<>> THEN <<>>
    ELSE vulnsOfPages(SubSeq(pages, 1, Len(pages) - 1)) \o orEmptyList(pages[Len(pages)].vulns)

\* The body the service should receive once it has served n pages: the original
\* query, with the token of page n when n > 0.
expectedBody(n) ==
    [package |-> pageCall.package, version |-> pageCall.version,
     page_token |-> IF n = 0 THEN Undefined ELSE pagesServed[n].next_page_token]

\* querySinglePackage has returned after a last page that was read.
EveryPageSucceeded == pageState = "returned" /\ pageRequest.state = "returned"

\* querySinglePackage has returned after a page whose request or body failed.
APageFailed == pageState = "returned" /\ pageRequest.state = "threw"

\* C34: a single-package query is followed page by page until a page names no
\* continuation token: every request is the original query plus the latest
\* token, and when every page succeeds the result is the concatenation of the
\* vulnerabilities of all pages.
C34_PagesFollowedToTheEnd ==
    /\ \A e \in received : e.body = expectedBody(e.after)
    /\ EveryPageSucceeded =>
          /\ individualResult = <<vulnsOfPages(pagesServed)>>
          /\ ~isTruthy(pagesServed[Len(pagesServed)].next_page_token)
          /\ {e.after : e \in received} = 0..(Len(pagesServed) - 1)

\* Three pages with the tokens "t1" and "t2" have been read, four records in all.
C34_Witness ==
    /\ EveryPageSucceeded
    /\ Len(pagesServed) = 3
    /\ pagesServed[1].next_page_token = Some("t1")
    /\ pagesServed[2].next_page_token = Some("t2")
    /\ Len(individualResult[1]) = 4

\* C35: when a page request fails after its retries, pagination for the package
\* stops without raising: no further page is requested, and the vulnerabilities
\* of the pages already fetched are returned to queryIndividually and passed on.
C35_FailedPageKeepsEarlierPages ==
    /\ pageState # "rejected"
    /\ APageFailed =>
          /\ individualResult = <<vulnsOfPages(pagesServed)>>
          /\ {e.after : e \in received} = 0..Len(pagesServed)

\* The third page failed after two pages with three records had been read.
C35_Witness ==
    /\ APageFailed
    /\ Len(pagesServed) = 2
    /\ Len(individualResult[1]) = 3

(***************************************************************************)
(* npm source: claims about scan                                           *)
(***************************************************************************)
\* The advisories of the bulk requests that succeeded, in the order of the
\* requests, as the registry answered them.
RECURSIVE answeredAdvisories(_)
answeredAdvisories(requests) ==
    IF requests = <<>> THEN <<>>
    ELSE answeredAdvisories(SubSeq(requests, 1, Len(requests) - 1))
         \o (IF requests[Len(requests)].state = "returned"
             THEN requests[Len(requests)].ids ELSE <<>>)

\* A bulk request of the scan has failed for good.
ABulkRequestFailed == \E k \in 1..Len(npmRequests) : npmRequests[k].state = "threw"

\* C38: the scan of the npm source rejects when the unique packages fit in one
\* request and that request fails after its retries; when the packages are sent
\* in chunks a failed chunk is skipped, and the scan resolves with the
\* advisories of the other chunks.
C38_SingleRequestRejectsChunksAreSkipped ==
    /\ (~inBatches /\ ABulkRequestFailed) => npmState = "rejected"
    /\ (npmCall.packages # <<>> /\ inBatches) =>
          /\ npmState # "rejected"
          /\ \A k \in 1..Len(npmRequests) :
                (k > 1 /\ hasSettled(npmRequests[k - 1])) => npmRequests[k].state # "waiting"
          /\ npmState = "resolved" =>
                npmResult = <<processAdvisories(answeredAdvisories(npmRequests),
                                                npmCall.packages, npmScanEnv, 0).advisories>>

\* Three packages in chunks of two: the first chunk failed, the second was
\* answered, and the scan has resolved with the advisory of the second chunk.
C38_Witness ==
    /\ inBatches
    /\ npmState = "resolved"
    /\ npmRequests[1].state = "threw"
    /\ npmRequests[2].state = "returned"
    /\ Len(npmResult[1]) = 1

\* The packages fit in one request, it has failed, and the scan has rejected.
C38_SingleRequestRejected ==
    /\ ~inBatches
    /\ ABulkRequestFailed
    /\ npmState = "rejected"

====
